---- MODULE Spec2Model ----
(***************************************************************************)
(* Outbound delivery pipeline of mail_server: the Outgoing Mail Log state  *)
(* machine, the queue publisher (push_to_queue, push_emails_to_queue), the *)
(* delivery status reconciler (fetch_and_update_delivery_statuses) and the *)
(* bounce ledgers (Bounce History, Bounce Log).                            *)
(*                                                                         *)
(* Time is counted in ticks of 6 seconds, the largest unit in which both   *)
(* the publisher's backoff (whole minutes) and the Bounce Log's durations  *)
(* (hundredths of a day) are whole numbers.                                *)
(***************************************************************************)
EXTENDS Integers, Sequences, FiniteSets, TLC

VARIABLES
    msgs,      \* Outgoing Mail Log: message id -> document ("" status: none yet)
    wk,        \* workers: the gate job of each message, and the operator's request
    sw,        \* the job push_emails_to_queue
    dr,        \* TRUE while fetch_and_update_delivery_statuses drains the queue
    pub,       \* work queue: per message, the broker messages published for it
    statusQ,   \* status queue: the transfer agent's events, oldest first
    bh,        \* Bounce History: address -> record
    bl,        \* Bounce Log: address -> record
    clock,     \* now(), in ticks
    writes,    \* per message, the statuses the last step wrote and overwrote
    epoch,     \* per message, the operator's requests so far to queue it again
    cnt,       \* what the environment may still do (the bounds of a behaviour)
    us         \* harness of a function called on its own (update_status; the
               \* workers of create_or_update_bounce_history), "off" otherwise

----------------------------------------------------------------------------
(* Bounds of the model *)

MaxRcpts == 3          \* longest recipient vector given to update_status
MaxBounces == 9        \* bounces recorded per ledger record
MaxAdvance == 1        \* clock advances per behaviour
MaxEvents == 2         \* status events the transfer agent emits per behaviour
MaxOps == 1            \* operator requests per behaviour
MaxBrokerFailures == 2 \* broker failures per behaviour
MaxRecordings == 2     \* bounces each concurrent worker records for the address
MaxQueue == 2          \* status events waiting when the drain job is first called
MaxRuns == 2           \* calls of the drain job

(* Units of time *)
Minute == 60 \div 6
Day == 1440 * Minute
CentiDay == Day \div 100

Addrs == {"a", "b"}

NULL == 0 - 1          \* a datetime column that is not set

----------------------------------------------------------------------------
(* OutgoingMailLog.update_status: the aggregate status of the recipients *)

RcptStatuses == {"", "Blocked", "Deferred", "Bounced", "Sent"}

Count(seq, k) == Cardinality({i \in DOMAIN seq : seq[i] = k})

\* A plausible slip: the Sent tests placed before the Deferred test.
computed_status_SentFirst(recipient_statuses) ==
    LET total == Len(recipient_statuses)
        c(k) == Count(recipient_statuses, k)
    IN  IF c("") = total THEN ""
        ELSE IF c("Blocked") = total THEN "Blocked"
        ELSE IF c("Sent") = total THEN "Sent"
        ELSE IF c("Sent") > 0 THEN "Partially Sent"
        ELSE IF c("Deferred") > 0 THEN "Deferred"
        ELSE IF c("Bounced") > 0 THEN "Bounced"
        ELSE ""

\* The status update_status computes, "" where it computes none.
computed_status(recipient_statuses) ==
    LET total == Len(recipient_statuses)
        c(k) == Count(recipient_statuses, k)
    IN  IF c("") = total THEN ""
        ELSE IF c("Blocked") = total THEN "Blocked"
        ELSE IF c("Deferred") > 0 THEN "Deferred"
        ELSE IF c("Sent") = total THEN "Sent"
        ELSE IF c("Sent") > 0 THEN "Partially Sent"
        ELSE IF c("Bounced") > 0 THEN "Bounced"
        ELSE ""

\* self.status after update_status() on a document whose status was cur.
update_status(recipient_statuses, cur) ==
    LET status == computed_status(recipient_statuses)
    IN  IF status # "" THEN status ELSE cur

----------------------------------------------------------------------------
(* Bounce History and Bounce Log *)

Min(x, y) == IF x <= y THEN x ELSE y

\* block_durations of BounceHistory.set_blocked_until, in days
bounce_history_durations == <<1, 7, 30, 36500>>

\* block_durations of BounceLog.set_blocked_until, in hundredths of a day
bounce_log_durations == <<4, 12, 25, 50, 100, 700, 3000, 3650000>>

\* Python's list indexing: a negative index counts from the end.
PyIndex(list, i) == IF i >= 0 THEN list[i + 1] ELSE list[Len(list) + i + 1]

NoRecord == [bounce_count |-> 0, last_bounce_at |-> NULL, blocked_until |-> NULL]

\* A plausible slip: the count itself used as the index.
history_block_for_OffByOne(bounce_count) ==
    PyIndex(bounce_history_durations,
            Min(bounce_count, Len(bounce_history_durations) - 1)) * Day

\* block_for_days of BounceHistory.set_blocked_until, in ticks
history_block_for(bounce_count) ==
    PyIndex(bounce_history_durations,
            Min(bounce_count - 1, Len(bounce_history_durations) - 1)) * Day

\* A plausible slip: the index wrapped around the table instead of clamped.
log_block_for_Wrap(bounce_count) ==
    PyIndex(bounce_log_durations,
            (bounce_count - 1) % Len(bounce_log_durations)) * CentiDay

\* block_for_days of BounceLog.set_blocked_until, in ticks
log_block_for(bounce_count) ==
    PyIndex(bounce_log_durations,
            Min(bounce_count - 1, Len(bounce_log_durations) - 1)) * CentiDay

\* BounceHistory.validate on save: a changed bounce_count stamps the record.
history_validate(old_count, doc, now) ==
    IF doc.bounce_count # old_count
    THEN [doc EXCEPT !.last_bounce_at = now,
                     !.blocked_until = now + history_block_for(doc.bounce_count)]
    ELSE doc

log_validate(old_count, doc, now) ==
    IF doc.bounce_count # old_count
    THEN [doc EXCEPT !.last_bounce_at = now,
                     !.blocked_until = now + log_block_for(doc.bounce_count)]
    ELSE doc

\* create_or_update_bounce_history(email, bounce_increment), run in one piece
create_or_update_bounce_history(ledger, email, bounce_increment, now) ==
    LET old == ledger[email]
        doc == [old EXCEPT !.bounce_count = @ + bounce_increment]
    IN  [ledger EXCEPT ![email] = history_validate(old.bounce_count, doc, now)]

\* create_or_update_bounce_log(email, bounce_increment), run in one piece
create_or_update_bounce_log(ledger, email, bounce_increment, now) ==
    LET old == ledger[email]
        doc == [old EXCEPT !.bounce_count = @ + bounce_increment]
    IN  [ledger EXCEPT ![email] = log_validate(old.bounce_count, doc, now)]

\* is_email_blocked(email)
is_email_blocked(ledger, email, now) ==
    /\ ledger[email].blocked_until # NULL
    /\ ledger[email].blocked_until > now

----------------------------------------------------------------------------
(* The store *)

MsgOrder == <<"m1", "m2">>     \* the documents, in the order intake creates them
Msgs == {MsgOrder[i] : i \in DOMAIN MsgOrder}
Priorities == {1, 2, 3}
RcptLists == {<<"a">>, <<"a", "b">>}

MAX_FAILED_COUNT == 5
batch_size == 1000
max_failures == 3

Statuses == {"In Progress", "Accepted", "Blocked", "Queuing (RMQ)", "Queued (RMQ)",
             "Queued (Haraka)", "Sent", "Partially Sent", "Deferred", "Bounced",
             "Failed"}

\* forced: the comment force_accept leaves on the document
NoDoc == [status |-> "", priority |-> 0, received_at |-> NULL, failed_count |-> 0,
          retry_after |-> NULL, error_message |-> "", recipients |-> <<>>,
          forced |-> FALSE]

NewRcpt(email) ==
    [email |-> email, status |-> "", error_message |-> "", retries |-> 0,
     action_at |-> NULL, response |-> <<>>]

SeqMap(Op(_), seq) == [i \in DOMAIN seq |-> Op(seq[i])]

RcptStatusesOf(doc) == [i \in DOMAIN doc.recipients |-> doc.recipients[i].status]

\* [r.email for r in self.recipients if r.status != "Blocked"], as a set
NonBlocked(doc) ==
    {doc.recipients[i].email : i \in {j \in DOMAIN doc.recipients :
                                        doc.recipients[j].status # "Blocked"}}

\* validate_priority
validate_priority(priority) == Min(IF priority > 0 THEN priority ELSE 0, 3)

Workers == Msgs \cup {"op"}

Idle == [pc |-> "idle", m |-> "", status |-> "", error |-> "",
         blocked |-> {}, fc |-> 0, to |-> {}]

NoWrites == [m \in Msgs |-> <<>>]

\* A step that wrote the statuses of trail to m, in this order: the last of them
\* is the status of m after the step, the earlier ones are kept in writes
Wrote(m, trail) ==
    [NoWrites EXCEPT ![m] = IF trail = <<>> THEN <<>>
                            ELSE SubSeq(trail, 1, Len(trail) - 1)]

----------------------------------------------------------------------------
(* Intake: create_outgoing_mail_log, validate, after_insert *)

Intake(m, priority, rcpts) ==
    /\ cnt.intake > 0
    /\ msgs[m].status = ""
    /\ \A i, j \in DOMAIN MsgOrder :
          i < j /\ MsgOrder[j] = m => msgs[MsgOrder[i]].status # ""
    /\ wk[m].pc = "idle"
    /\ msgs' = [msgs EXCEPT ![m] =
                   [NoDoc EXCEPT !.status = "In Progress",
                                 !.priority = validate_priority(priority),
                                 !.received_at = clock,
                                 !.recipients = SeqMap(NewRcpt, rcpts)]]
    /\ wk' = [wk EXCEPT ![m] = [Idle EXCEPT !.pc = "enqueued", !.m = m]]
    /\ writes' = NoWrites
    /\ cnt' = [cnt EXCEPT !.intake = @ - 1]
    /\ UNCHANGED <<sw, dr, pub, statusQ, bh, bl, clock, epoch, us>>

----------------------------------------------------------------------------
(* Gate evaluation: process_for_delivery *)

\* A plausible slip: the spam score tested before the DKIM diagnostic.
check_for_spam_ScoreFirst(block_dkim, dkim_invalid, block_spam, is_spam) ==
    IF block_spam /\ is_spam
    THEN [status |-> "Blocked", error |-> "spam", is_spam |-> is_spam]
    ELSE IF block_dkim /\ dkim_invalid
    THEN [status |-> "Blocked", error |-> "dkim", is_spam |-> is_spam]
    ELSE [status |-> "", error |-> "", is_spam |-> is_spam]

\* _check_for_spam: the status and error it adds to kwargs, "" where none, and
\* is_spam
check_for_spam(block_dkim, dkim_invalid, block_spam, is_spam) ==
    IF block_dkim /\ dkim_invalid
    THEN [status |-> "Blocked", error |-> "dkim", is_spam |-> is_spam]
    ELSE IF block_spam /\ is_spam
    THEN [status |-> "Blocked", error |-> "spam", is_spam |-> is_spam]
    ELSE [status |-> "", error |-> "", is_spam |-> is_spam]

\* A plausible slip: the spam check run whatever the blocklist decided.
prepare_delivery_args_SpamAlways(doc, ledger, now, spam_on, spam) ==
    LET blocked == {doc.recipients[i].email : i \in {j \in DOMAIN doc.recipients :
                        is_email_blocked(ledger, doc.recipients[j].email, now)}}
        marked == [i \in DOMAIN doc.recipients |->
                      IF doc.recipients[i].email \in blocked
                      THEN "Blocked" ELSE doc.recipients[i].status]
        status == update_status(marked, doc.status)
    IN  IF spam_on /\ spam.status # ""
        THEN [blocked |-> blocked, status |-> spam.status, error |-> spam.error,
              spam_checked |-> TRUE, is_spam |-> spam.is_spam]
        ELSE IF status = "Blocked"
        THEN [blocked |-> blocked, status |-> "Blocked", error |-> "blocklist",
              spam_checked |-> spam_on, is_spam |-> spam_on /\ spam.is_spam]
        ELSE [blocked |-> blocked, status |-> "Accepted", error |-> "",
              spam_checked |-> spam_on, is_spam |-> spam_on /\ spam.is_spam]

\* _prepare_delivery_args on the reloaded document: the recipients found on the
\* blocklist, the status and error of kwargs, whether _check_for_spam was
\* called and the is_spam it gave
prepare_delivery_args(doc, ledger, now, spam_on, spam) ==
    LET blocked == {doc.recipients[i].email : i \in {j \in DOMAIN doc.recipients :
                        is_email_blocked(ledger, doc.recipients[j].email, now)}}
        marked == [i \in DOMAIN doc.recipients |->
                      IF doc.recipients[i].email \in blocked
                      THEN "Blocked" ELSE doc.recipients[i].status]
        status == update_status(marked, doc.status)
    IN  IF status = "Blocked"
        THEN [blocked |-> blocked, status |-> "Blocked", error |-> "blocklist",
              spam_checked |-> FALSE, is_spam |-> FALSE]
        ELSE IF spam_on /\ spam.status # ""
        THEN [blocked |-> blocked, status |-> spam.status, error |-> spam.error,
              spam_checked |-> TRUE, is_spam |-> spam.is_spam]
        ELSE [blocked |-> blocked, status |-> "Accepted", error |-> "",
              spam_checked |-> spam_on, is_spam |-> spam_on /\ spam.is_spam]

\* reload, the In Progress test, and _prepare_delivery_args up to its result
GateRead(m) ==
    /\ wk[m].pc = "enqueued"
    /\ IF msgs[m].status # "In Progress"
       THEN wk' = [wk EXCEPT ![m] = Idle]
       ELSE \E spam_on, block_dkim, dkim_invalid, block_spam, is_spam \in BOOLEAN :
              LET d == prepare_delivery_args(msgs[m], bl, clock, spam_on,
                          check_for_spam(block_dkim, dkim_invalid, block_spam, is_spam))
              IN  wk' = [wk EXCEPT ![m] =
                            [@ EXCEPT !.pc = "decided", !.status = d.status,
                                      !.error = d.error, !.blocked = d.blocked,
                                      !.fc = msgs[m].failed_count,
                                      !.to = {msgs[m].recipients[i].email :
                                                 i \in DOMAIN msgs[m].recipients}
                                             \ d.blocked]]
    /\ writes' = NoWrites
    /\ UNCHANGED <<msgs, sw, dr, pub, statusQ, bh, bl, clock, epoch, cnt, us>>

\* A plausible slip: every accepted message pushed at once, whatever its
\* priority.
GateWrite_FrontAlways(m) ==
    /\ wk[m].pc = "decided"
    /\ LET w == wk[m]
           front == w.status = "Accepted"
           rcpts == [i \in DOMAIN msgs[m].recipients |->
                        IF msgs[m].recipients[i].email \in w.blocked
                        THEN [NewRcpt(msgs[m].recipients[i].email)
                                 EXCEPT !.status = "Blocked",
                                        !.error_message = "blocklist"]
                        ELSE msgs[m].recipients[i]]
       IN  /\ msgs' = [msgs EXCEPT ![m] =
                          [@ EXCEPT !.status = IF front THEN "Queuing (RMQ)"
                                               ELSE w.status,
                                    !.error_message = w.error,
                                    !.recipients = rcpts]]
           /\ wk' = [wk EXCEPT ![m] = IF front /\ w.to # {}
                                      THEN [@ EXCEPT !.pc = "publish"] ELSE Idle]
           /\ writes' = Wrote(m, IF front THEN <<w.status, "Queuing (RMQ)">>
                                 ELSE <<w.status>>)
    /\ UNCHANGED <<sw, dr, pub, statusQ, bh, bl, clock, epoch, cnt, us>>

\* recipient.db_update() of the blocked recipients, _db_set(**kwargs) and, for an
\* accepted message of priority 3, push_to_queue (forced) up to its first commit
GateWrite(m) ==
    /\ wk[m].pc = "decided"
    /\ LET w == wk[m]
           front == w.status = "Accepted" /\ msgs[m].priority = 3
           rcpts == [i \in DOMAIN msgs[m].recipients |->
                        IF msgs[m].recipients[i].email \in w.blocked
                        THEN [NewRcpt(msgs[m].recipients[i].email)
                                 EXCEPT !.status = "Blocked",
                                        !.error_message = "blocklist"]
                        ELSE msgs[m].recipients[i]]
       IN  /\ msgs' = [msgs EXCEPT ![m] =
                          [@ EXCEPT !.status = IF front THEN "Queuing (RMQ)"
                                               ELSE w.status,
                                    !.error_message = w.error,
                                    !.recipients = rcpts]]
           /\ wk' = [wk EXCEPT ![m] = IF front /\ w.to # {}
                                      THEN [@ EXCEPT !.pc = "publish"] ELSE Idle]
           /\ writes' = Wrote(m, IF front THEN <<w.status, "Queuing (RMQ)">>
                                 ELSE <<w.status>>)
    /\ UNCHANGED <<sw, dr, pub, statusQ, bh, bl, clock, epoch, cnt, us>>

----------------------------------------------------------------------------
(* push_to_queue *)

\* retry_after_minutes = failed_count * (failed_count + 1), in ticks
retry_after_delay(failed_count) == failed_count * (failed_count + 1) * Minute

\* push_to_queue called without the force flag: reload, the Accepted test, and the
\* commit of Queuing (RMQ)
PushBegin(w) ==
    /\ wk[w].pc = "pushq"
    /\ LET m == wk[w].m
           doc == msgs[m]
       IN  IF ~(doc.status = "Accepted" /\ doc.failed_count < MAX_FAILED_COUNT)
           THEN /\ wk' = [wk EXCEPT ![w] = Idle]
                /\ writes' = NoWrites
                /\ UNCHANGED msgs
           ELSE /\ msgs' = [msgs EXCEPT ![m].status = "Queuing (RMQ)"]
                /\ wk' = [wk EXCEPT ![w] =
                             IF NonBlocked(doc) = {} THEN Idle
                             ELSE [@ EXCEPT !.pc = "publish",
                                            !.fc = doc.failed_count,
                                            !.to = NonBlocked(doc)]]
                /\ writes' = Wrote(m, <<"Queuing (RMQ)">>)
    /\ UNCHANGED <<sw, dr, pub, statusQ, bh, bl, clock, epoch, cnt, us>>

\* rmq.publish(OUTGOING_MAIL_QUEUE, json.dumps(data), priority=3)
PushPublish(w) ==
    /\ wk[w].pc = "publish"
    /\ LET m == wk[w].m
       IN  pub' = [pub EXCEPT ![m] = Append(@, [recipients |-> wk[w].to,
                                                priority |-> 3,
                                                epoch |-> epoch[m]])]
    /\ wk' = [wk EXCEPT ![w].pc = "published"]
    /\ writes' = NoWrites
    /\ UNCHANGED <<msgs, sw, dr, statusQ, bh, bl, clock, epoch, cnt, us>>

\* the _db_set of Queued (RMQ) after the publish
PushFinish(w) ==
    /\ wk[w].pc = "published"
    /\ LET m == wk[w].m
       IN  /\ msgs' = [msgs EXCEPT ![m].status = "Queued (RMQ)"]
           /\ writes' = Wrote(m, <<"Queued (RMQ)">>)
    /\ wk' = [wk EXCEPT ![w] = Idle]
    /\ UNCHANGED <<sw, dr, pub, statusQ, bh, bl, clock, epoch, cnt, us>>

\* the except branch: the broker raised on connecting or publishing, or on
\* closing the connection after the publish
PushFail(w) ==
    /\ wk[w].pc \in {"publish", "published"}
    /\ cnt.fail > 0
    /\ LET m == wk[w].m
           failed_count == wk[w].fc + 1
       IN  /\ msgs' = [msgs EXCEPT ![m] =
                          [@ EXCEPT !.status = "Failed",
                                    !.failed_count = failed_count,
                                    !.retry_after =
                                        clock + retry_after_delay(failed_count)]]
           /\ writes' = Wrote(m, <<"Failed">>)
    /\ wk' = [wk EXCEPT ![w] = Idle]
    /\ cnt' = [cnt EXCEPT !.fail = @ - 1]
    /\ UNCHANGED <<sw, dr, pub, statusQ, bh, bl, clock, epoch, us>>

----------------------------------------------------------------------------
(* Operator actions, each one request of the operator *)

OpReady(m) ==
    /\ wk["op"].pc = "idle"
    /\ cnt.ops > 0
    /\ msgs[m].status # ""

OpFrame == UNCHANGED <<sw, dr, pub, statusQ, bh, bl, clock, us>>

\* A plausible slip: the recipients left as they were.
force_accept_KeepBlocked(m) ==
    /\ OpReady(m)
    /\ msgs[m].status \in {"In Progress", "Blocked"}
    /\ LET doc == msgs[m]
           front == doc.priority = 3
           rcpts == [i \in DOMAIN doc.recipients |->
                        doc.recipients[i]]
           to == {doc.recipients[i].email : i \in DOMAIN doc.recipients}
       IN  /\ msgs' = [msgs EXCEPT ![m] =
                          [@ EXCEPT !.status = IF front THEN "Queuing (RMQ)"
                                               ELSE "Accepted",
                                    !.error_message = "",
                                    !.recipients = rcpts,
                                    !.forced = TRUE]]
           /\ wk' = [wk EXCEPT !["op"] =
                        IF front /\ to # {}
                        THEN [Idle EXCEPT !.pc = "publish", !.m = m, !.fc = doc.failed_count, !.to = to]
                        ELSE Idle]
           /\ writes' = Wrote(m, IF front THEN <<"Accepted", "Queuing (RMQ)">>
                                 ELSE <<"Accepted">>)
    /\ cnt' = [cnt EXCEPT !.ops = @ - 1]
    /\ UNCHANGED epoch
    /\ OpFrame

\* force_accept: the Blocked recipients cleared, _accept, the comment and, for
\* priority 3, push_to_queue (forced) up to its first commit
force_accept(m) ==
    /\ OpReady(m)
    /\ msgs[m].status \in {"In Progress", "Blocked"}
    /\ LET doc == msgs[m]
           front == doc.priority = 3
           rcpts == [i \in DOMAIN doc.recipients |->
                        IF doc.recipients[i].status = "Blocked"
                        THEN [doc.recipients[i] EXCEPT !.status = "",
                                                        !.error_message = ""]
                        ELSE doc.recipients[i]]
           to == {doc.recipients[i].email : i \in DOMAIN doc.recipients}
       IN  /\ msgs' = [msgs EXCEPT ![m] =
                          [@ EXCEPT !.status = IF front THEN "Queuing (RMQ)"
                                               ELSE "Accepted",
                                    !.error_message = "",
                                    !.recipients = rcpts,
                                    !.forced = TRUE]]
           /\ wk' = [wk EXCEPT !["op"] =
                        IF front /\ to # {}
                        THEN [Idle EXCEPT !.pc = "publish", !.m = m, !.fc = doc.failed_count, !.to = to]
                        ELSE Idle]
           /\ writes' = Wrote(m, IF front THEN <<"Accepted", "Queuing (RMQ)">>
                                 ELSE <<"Accepted">>)
    /\ cnt' = [cnt EXCEPT !.ops = @ - 1]
    /\ UNCHANGED epoch
    /\ OpFrame

\* retry_failed and retry_bounced up to their commit; push_to_queue follows
Retry(m, act) ==
    /\ OpReady(m)
    /\ msgs' = [msgs EXCEPT ![m] = [@ EXCEPT !.status = "Accepted",
                                              !.error_message = ""]]
    /\ wk' = [wk EXCEPT !["op"] = [Idle EXCEPT !.pc = "pushq", !.m = m]]
    /\ writes' = Wrote(m, <<"Accepted">>)
    /\ epoch' = [epoch EXCEPT ![m] = @ + 1]
    /\ cnt' = [cnt EXCEPT !.ops = @ - 1]
    /\ OpFrame

retry_failed(m) ==
    /\ msgs[m].status = "Failed"
    /\ msgs[m].failed_count < MAX_FAILED_COUNT
    /\ Retry(m, "retry_failed")

retry_bounced(m) ==
    /\ msgs[m].status = "Bounced"
    /\ Retry(m, "retry_bounced")

force_push_to_queue(m) ==
    /\ OpReady(m)
    /\ msgs[m].status \in {"Queued (RMQ)", "Queued (Haraka)"}
    /\ LET doc == msgs[m]
       IN  /\ msgs' = [msgs EXCEPT ![m].status = "Queuing (RMQ)"]
           /\ wk' = [wk EXCEPT !["op"] =
                        IF NonBlocked(doc) = {} THEN Idle
                        ELSE [Idle EXCEPT !.pc = "publish", !.m = m,
                                          !.fc = doc.failed_count,
                                          !.to = NonBlocked(doc)]]
    /\ writes' = Wrote(m, <<"Queuing (RMQ)">>)
    /\ epoch' = [epoch EXCEPT ![m] = @ + 1]
    /\ cnt' = [cnt EXCEPT !.ops = @ - 1]
    /\ OpFrame

\* the whitelisted push_to_queue called on its own
push_to_queue(m) ==
    /\ OpReady(m)
    /\ wk' = [wk EXCEPT !["op"] = [Idle EXCEPT !.pc = "pushq", !.m = m]]
    /\ writes' = NoWrites
    /\ cnt' = [cnt EXCEPT !.ops = @ - 1]
    /\ UNCHANGED <<msgs, epoch>>
    /\ OpFrame

----------------------------------------------------------------------------
(* The batch sweep: push_emails_to_queue *)

SwIdle == [pc |-> "idle", batch |-> <<>>, i |-> 0, total_failures |-> 0]

\* A plausible slip: retry_after left out of the WHERE clause.
Eligible_NoRetryAfter(m) ==
    /\ msgs[m].status \in {"Accepted", "Failed"}
    /\ msgs[m].failed_count < MAX_FAILED_COUNT
    /\ NonBlocked(msgs[m]) # {}

\* the WHERE clause of the SELECT
Eligible(m) ==
    /\ msgs[m].status \in {"Accepted", "Failed"}
    /\ msgs[m].failed_count < MAX_FAILED_COUNT
    /\ (msgs[m].retry_after = NULL \/ msgs[m].retry_after <= clock)
    /\ NonBlocked(msgs[m]) # {}

\* One row of the result: name, priority and GroupConcat(MLR.email)
Row(m) == [name |-> m, priority |-> msgs[m].priority,
           recipients |-> NonBlocked(msgs[m])]

\* A plausible slip: the priority ordered ascending.
order_by_Ascending(a, b) ==
    \/ msgs[a].priority < msgs[b].priority
    \/ /\ msgs[a].priority = msgs[b].priority
       /\ msgs[a].received_at <= msgs[b].received_at

\* .orderby(OML.priority, order=Order.desc).orderby(OML.received_at): whether
\* the row of a may come before the row of b
order_by(a, b) ==
    \/ msgs[a].priority > msgs[b].priority
    \/ /\ msgs[a].priority = msgs[b].priority
       /\ msgs[a].received_at <= msgs[b].received_at

\* The results the SELECT may give: the eligible rows in an order the ORDER BY
\* allows (rows that tie come in any order), cut by LIMIT batch_size
select_mails ==
    LET elig == {m \in Msgs : Eligible(m)}
        n == Cardinality(elig)
        orders == {s \in [1 .. n -> elig] :
                      /\ \A i, j \in 1 .. n : i # j => s[i] # s[j]
                      /\ \A i, j \in 1 .. n : i < j => order_by(s[i], s[j])}
    IN  {[i \in 1 .. Min(n, batch_size) |-> Row(s[i])] : s \in orders}

BatchNames(batch) == {batch[i].name : i \in DOMAIN batch}

\* The job starts: the first SELECT of the loop
SwStart ==
    /\ sw.pc = "idle"
    /\ \E mails \in select_mails :
          /\ mails # <<>>
          /\ sw' = [SwIdle EXCEPT !.pc = "selected", !.batch = mails]
    /\ writes' = NoWrites
    /\ UNCHANGED <<msgs, wk, dr, pub, statusQ, bh, bl, clock, epoch, cnt, us>>

\* The SELECT of a later iteration; the loop ends when it finds nothing
SwSelect ==
    /\ sw.pc = "select"
    /\ \E mails \in select_mails :
          sw' = IF mails = <<>> THEN SwIdle
                ELSE [sw EXCEPT !.pc = "selected", !.batch = mails]
    /\ writes' = NoWrites
    /\ UNCHANGED <<msgs, wk, dr, pub, statusQ, bh, bl, clock, epoch, cnt, us>>

\* UPDATE ... SET status = 'Queuing (RMQ)' WHERE status IN (Accepted, Failed)
\* AND name IN mail_list; commit
SwMark ==
    /\ sw.pc = "selected"
    /\ LET hit == {m \in BatchNames(sw.batch) :
                      msgs[m].status \in {"Accepted", "Failed"}}
       IN  /\ msgs' = [m \in Msgs |-> IF m \in hit
                          THEN [msgs[m] EXCEPT !.status = "Queuing (RMQ)"]
                          ELSE msgs[m]]
           /\ writes' = NoWrites
    /\ sw' = [sw EXCEPT !.pc = "publishing", !.i = 1]
    /\ UNCHANGED <<wk, dr, pub, statusQ, bh, bl, clock, epoch, cnt, us>>

\* rmq.publish of the next mail of the batch; a mail of the root domain goes
\* out with priority 2 at least
SwPublish ==
    /\ sw.pc = "publishing"
    /\ sw.i <= Len(sw.batch)
    /\ LET mail == sw.batch[sw.i]
       IN  \E root_domain \in BOOLEAN :
              pub' = IF mail.recipients = {} THEN pub
                     ELSE [pub EXCEPT ![mail.name] =
                              Append(@, [recipients |-> mail.recipients,
                                         priority |-> IF root_domain /\ mail.priority < 2
                                                      THEN 2 ELSE mail.priority,
                                         epoch |-> epoch[mail.name]])]
    /\ sw' = [sw EXCEPT !.i = @ + 1]
    /\ writes' = NoWrites
    /\ UNCHANGED <<msgs, wk, dr, statusQ, bh, bl, clock, epoch, cnt, us>>

\* UPDATE ... SET status = 'Queued (RMQ)' WHERE status = 'Queuing (RMQ)' AND
\* name IN mail_list, after the last publish
SwFinish ==
    /\ sw.pc = "publishing"
    /\ sw.i > Len(sw.batch)
    /\ LET hit == {m \in BatchNames(sw.batch) : msgs[m].status = "Queuing (RMQ)"}
       IN  /\ msgs' = [m \in Msgs |-> IF m \in hit
                          THEN [msgs[m] EXCEPT !.status = "Queued (RMQ)"]
                          ELSE msgs[m]]
           /\ writes' = NoWrites
    /\ sw' = [sw EXCEPT !.pc = "select", !.batch = <<>>, !.i = 0]
    /\ UNCHANGED <<wk, dr, pub, statusQ, bh, bl, clock, epoch, cnt, us>>

\* A plausible slip: the delay computed from the count before the increment.
sweep_failed_row_OldCount(doc, now) ==
    [doc EXCEPT !.status = "Failed",
                !.failed_count = doc.failed_count + 1,
                !.retry_after = now + retry_after_delay(doc.failed_count)]

\* SET status = 'Failed', failed_count = failed_count + 1, retry_after = NOW() +
\* INTERVAL (failed_count * (failed_count + 1)) MINUTE: MySQL assigns from left
\* to right, so the interval reads the incremented count
sweep_failed_row(doc, now) ==
    LET failed_count == doc.failed_count + 1
    IN  [doc EXCEPT !.status = "Failed",
                    !.failed_count = failed_count,
                    !.retry_after = now + retry_after_delay(failed_count)]

\* the except branch without the limit on total_failures
SwFail_NoLimit ==
    /\ sw.pc = "publishing"
    /\ cnt.fail > 0
    /\ LET hit == {m \in BatchNames(sw.batch) : msgs[m].status = "Queuing (RMQ)"}
       IN  /\ msgs' = [m \in Msgs |-> IF m \in hit
                          THEN sweep_failed_row(msgs[m], clock) ELSE msgs[m]]
           /\ writes' = NoWrites
           /\ sw' = [SwIdle EXCEPT !.pc = "select",
                                   !.total_failures = sw.total_failures + 1]
    /\ cnt' = [cnt EXCEPT !.fail = @ - 1]
    /\ UNCHANGED <<wk, dr, pub, statusQ, bh, bl, clock, epoch, us>>

\* The except branch: the broker raised on connecting, on a publish or on
\* closing the connection after the last one
SwFail ==
    /\ sw.pc = "publishing"
    /\ cnt.fail > 0
    /\ LET hit == {m \in BatchNames(sw.batch) : msgs[m].status = "Queuing (RMQ)"}
           total_failures == sw.total_failures + 1
       IN  /\ msgs' = [m \in Msgs |-> IF m \in hit
                          THEN sweep_failed_row(msgs[m], clock) ELSE msgs[m]]
           /\ writes' = NoWrites
           /\ sw' = IF total_failures < max_failures
                    THEN [SwIdle EXCEPT !.pc = "select",
                                        !.total_failures = total_failures]
                    ELSE SwIdle
    /\ cnt' = [cnt EXCEPT !.fail = @ - 1]
    /\ UNCHANGED <<wk, dr, pub, statusQ, bh, bl, clock, epoch, us>>

----------------------------------------------------------------------------
(* The transfer agent and the reconciler: fetch_and_update_delivery_statuses *)

Hooks == {"queue_ok", "bounce", "deferred", "delivered"}
Retries == {1}

Published(m) == UNION {pub[m][i].recipients : i \in DOMAIN pub[m]}

\* The transfer agent reports on a message it was handed
AgentEmit(m, hook, rcpts, retries) ==
    /\ cnt.ev > 0
    /\ pub[m] # <<>>
    /\ IF hook = "queue_ok" THEN rcpts = {}
       ELSE rcpts # {} /\ rcpts \subseteq Published(m)
    /\ statusQ' = Append(statusQ, [hook |-> hook, outgoing_mail_log |-> m,
                                   rcpt_to |-> rcpts,
                                   retries |-> IF hook = "queue_ok" THEN 0
                                               ELSE retries,
                                   action_at |-> IF hook = "queue_ok" THEN NULL
                                                 ELSE clock])
    /\ cnt' = [cnt EXCEPT !.ev = @ - 1]
    /\ writes' = NoWrites
    /\ UNCHANGED <<msgs, wk, sw, dr, pub, bh, bl, clock, epoch, us>>

\* A plausible slip: only the messages waiting in the work queue counted.
has_unsynced_mails_RmqOnly == \E m \in Msgs : msgs[m].status = "Queued (RMQ)"

\* A plausible slip: any stored message counted as waiting for an outcome.
has_unsynced_mails_AnyStored == \E m \in Msgs : msgs[m].status # ""

\* has_unsynced_mails()
has_unsynced_mails ==
    \E m \in Msgs : msgs[m].status \in {"Queued (RMQ)", "Queued (Haraka)", "Deferred"}

\* queue_ok: frappe.db.set_value of the status, whatever it was
queue_ok(doc, data) ==
    [doc |-> [doc EXCEPT !.status = "Queued (Haraka)"],
     trail |-> <<"Queued (Haraka)">>]

Trail(status) == IF status = "" THEN <<>> ELSE <<status>>

\* A plausible slip: the status of the event written to the message, with no
\* update_status.
undelivered_NoRecompute(doc, data) ==
    LET status == IF data.hook = "deferred" THEN "Deferred" ELSE "Bounced"
        rcpts == [i \in DOMAIN doc.recipients |->
                     IF doc.recipients[i].email \in data.rcpt_to
                     THEN [doc.recipients[i] EXCEPT
                              !.status = status,
                              !.retries = data.retries,
                              !.action_at = data.action_at,
                              !.response = <<data.hook>>]
                     ELSE doc.recipients[i]]
    IN  [doc |-> [doc EXCEPT !.recipients = rcpts, !.status = status],
         trail |-> <<status>>]

\* undelivered: the matched recipients, then one update_status(db_set=True)
undelivered(doc, data) ==
    LET status == IF data.hook = "deferred" THEN "Deferred" ELSE "Bounced"
        rcpts == [i \in DOMAIN doc.recipients |->
                     IF doc.recipients[i].email \in data.rcpt_to
                     THEN [doc.recipients[i] EXCEPT
                              !.status = status,
                              !.retries = data.retries,
                              !.action_at = data.action_at,
                              !.response = <<data.hook>>]
                     ELSE doc.recipients[i]]
        after == [doc EXCEPT !.recipients = rcpts]
        computed == computed_status(RcptStatusesOf(after))
    IN  [doc |-> [after EXCEPT !.status = update_status(RcptStatusesOf(after), @)],
         trail |-> Trail(computed)]

\* A plausible slip: the retries of the event added to those stored.
delivered_rcpt_Accumulate(rcpt, data) ==
    [rcpt EXCEPT !.status = "Sent",
                 !.retries = @ + data.retries + 1,
                 !.action_at = data.action_at,
                 !.response = <<data.hook>>]

\* delivered: what it stores on a matched recipient
delivered_rcpt(rcpt, data) ==
    [rcpt EXCEPT !.status = "Sent",
                 !.retries = data.retries,
                 !.action_at = data.action_at,
                 !.response = <<data.hook>>]

\* delivered: the loop over doc.recipients up to recipient n, with its
\* update_status(db_set=True) inside the loop, once per recipient
RECURSIVE delivered_upto(_, _, _)
delivered_upto(doc, data, n) ==
    IF n = 0 THEN [doc |-> doc, trail |-> <<>>]
    ELSE LET before == delivered_upto(doc, data, n - 1)
             rcpt == before.doc.recipients[n]
             rcpts == IF rcpt.email \in data.rcpt_to
                      THEN [before.doc.recipients EXCEPT
                               ![n] = delivered_rcpt(rcpt, data)]
                      ELSE before.doc.recipients
             after == [before.doc EXCEPT !.recipients = rcpts]
             computed == computed_status(RcptStatusesOf(after))
         IN  [doc |-> [after EXCEPT
                          !.status = update_status(RcptStatusesOf(after), @)],
              trail |-> before.trail \o Trail(computed)]

delivered(doc, data) == delivered_upto(doc, data, Len(doc.recipients))

\* The handler the drain loop picks by data["hook"]
handle(doc, data) ==
    IF data.hook = "queue_ok" THEN queue_ok(doc, data)
    ELSE IF data.hook \in {"bounce", "deferred"} THEN undelivered(doc, data)
    ELSE delivered(doc, data)

\* create_or_update_bounce_history for every matched recipient of a bounce
RECURSIVE record_bounces(_, _, _, _)
record_bounces(ledger, rcpts, n, data) ==
    IF n = 0 THEN ledger
    ELSE LET before == record_bounces(ledger, rcpts, n - 1, data)
         IN  IF data.hook = "bounce" /\ rcpts[n].email \in data.rcpt_to
             THEN create_or_update_bounce_history(before, rcpts[n].email, 1, clock)
             ELSE before

\* The job starts when some message waits for an outcome
DrStart ==
    /\ ~dr
    /\ has_unsynced_mails
    /\ dr' = TRUE
    /\ writes' = NoWrites
    /\ UNCHANGED <<msgs, wk, sw, pub, statusQ, bh, bl, clock, epoch, cnt, us>>

\* One turn of the loop: basic_get, the handler, basic_ack
DrEvent ==
    /\ dr
    /\ statusQ # <<>>
    /\ LET data == Head(statusQ)
           m == data.outgoing_mail_log
           done == handle(msgs[m], data)
       IN  /\ msgs' = [msgs EXCEPT ![m] = done.doc]
           /\ writes' = Wrote(m, done.trail)
           /\ bh' = record_bounces(bh, msgs[m].recipients,
                                   Len(msgs[m].recipients), data)
    /\ statusQ' = Tail(statusQ)
    /\ UNCHANGED <<wk, sw, dr, pub, bl, clock, epoch, cnt, us>>

\* basic_get finds the queue empty: the loop ends
DrEnd ==
    /\ dr
    /\ statusQ = <<>>
    /\ dr' = FALSE
    /\ writes' = NoWrites
    /\ UNCHANGED <<msgs, wk, sw, pub, statusQ, bh, bl, clock, epoch, cnt, us>>

----------------------------------------------------------------------------
(* Time *)

ClockSteps == {Day}

Tick(d) ==
    /\ cnt.adv > 0
    /\ clock' = clock + d
    /\ cnt' = [cnt EXCEPT !.adv = @ - 1]
    /\ writes' = NoWrites
    /\ UNCHANGED <<msgs, wk, sw, dr, pub, statusQ, bh, bl, epoch, us>>

----------------------------------------------------------------------------
vars == <<msgs, wk, sw, dr, pub, statusQ, bh, bl, clock, writes, epoch, cnt, us>>

UsOff == [phase |-> "off", rcpts |-> <<>>, cur |-> "", status |-> ""]

BlockedAtStart == {{}, {"a"}}

NoCnt == [intake |-> 0, adv |-> 0, ev |-> 0, ops |-> 0, fail |-> 0]

\* The behaviours explored: the publisher's jobs racing over the messages of the
\* store against a failing broker; one message under a failing broker and the
\* operator's requests; one message followed from intake to its outcomes under
\* the operator's requests; and the messages of the store with one event of the
\* transfer agent, so that a message is taken in after another one's outcome
Budgets ==
    {[NoCnt EXCEPT !.intake = Len(MsgOrder), !.adv = MaxAdvance,
                   !.fail = MaxBrokerFailures],
     [NoCnt EXCEPT !.intake = 1, !.adv = MaxAdvance, !.fail = MaxBrokerFailures,
                   !.ops = MaxOps],
     [NoCnt EXCEPT !.intake = 1, !.ev = MaxEvents, !.ops = MaxOps],
     [NoCnt EXCEPT !.intake = Len(MsgOrder), !.ev = 1],
     [NoCnt EXCEPT !.intake = 1, !.adv = MaxAdvance + 1, !.fail = MaxBrokerFailures]}

\* The Bounce Log as it stands when the addresses of B bounced once at time 0
BounceLogAfter(B) ==
    [a \in Addrs |-> IF a \in B
                     THEN create_or_update_bounce_log(
                              [x \in Addrs |-> NoRecord], a, 1, 0)[a]
                     ELSE NoRecord]

\* Nothing stored, nothing queued, no job running
Quiet ==
    /\ msgs = [m \in Msgs |-> NoDoc]
    /\ wk = [w \in Workers |-> Idle]
    /\ sw = SwIdle
    /\ dr = FALSE
    /\ pub = [m \in Msgs |-> <<>>]
    /\ statusQ = <<>>
    /\ clock = 0
    /\ writes = NoWrites
    /\ epoch = [m \in Msgs |-> 0]

(* The pipeline: an empty store, and a Bounce Log some addresses are on *)
Init ==
    /\ Quiet
    /\ bh = [a \in Addrs |-> NoRecord]
    /\ bl \in {BounceLogAfter(B) : B \in BlockedAtStart}
    /\ cnt \in Budgets
    /\ us = UsOff

Next ==
    \/ \E m \in Msgs, priority \in Priorities, rcpts \in RcptLists :
          Intake(m, priority, rcpts)
    \/ \E m \in Msgs : GateRead(m)
    \/ \E m \in Msgs : GateWrite(m)
    \/ \E w \in Workers : PushBegin(w)
    \/ \E w \in Workers : PushPublish(w)
    \/ \E w \in Workers : PushFinish(w)
    \/ \E w \in Workers : PushFail(w)
    \/ \E m \in Msgs : force_accept(m)
    \/ \E m \in Msgs : retry_failed(m)
    \/ \E m \in Msgs : retry_bounced(m)
    \/ \E m \in Msgs : force_push_to_queue(m)
    \/ \E m \in Msgs : push_to_queue(m)
    \/ SwStart
    \/ SwSelect
    \/ SwMark
    \/ SwPublish
    \/ SwFinish
    \/ SwFail
    \/ \E m \in Msgs, hook \in Hooks, rcpts \in SUBSET Addrs, retries \in Retries :
          AgentEmit(m, hook, rcpts, retries)
    \/ DrStart
    \/ DrEvent
    \/ DrEnd
    \/ \E d \in ClockSteps : Tick(d)

Spec == Init /\ [][Next]_vars

----------------------------------------------------------------------------
(* update_status called on its own: every recipient vector, every status *)

RcptVectors == UNION {[1 .. n -> RcptStatuses] : n \in 1 .. MaxRcpts}

\* doc.update_status() on a document with these recipients and this status
UpdateStatus ==
    /\ us.phase = "call"
    /\ us' = [us EXCEPT !.phase = "done",
                        !.status = update_status(us.rcpts, us.cur)]
    /\ UNCHANGED <<msgs, wk, sw, dr, pub, statusQ, bh, bl, clock, writes, epoch, cnt>>

InitStatus ==
    /\ Quiet
    /\ bh = [a \in Addrs |-> NoRecord]
    /\ bl = [a \in Addrs |-> NoRecord]
    /\ cnt = NoCnt
    /\ us \in [phase : {"call"}, rcpts : RcptVectors, cur : Statuses, status : {""}]

NextStatus == UpdateStatus

SpecStatus == InitStatus /\ [][NextStatus]_vars

----------------------------------------------------------------------------
(* The bounce ledgers on their own: bounces recorded for one address as the *)
(* clock advances                                                          *)

BounceIncrements == {1, 2}

RecordBounceHistory(email, bounce_increment) ==
    /\ bh[email].bounce_count + bounce_increment <= MaxBounces
    /\ bh' = create_or_update_bounce_history(bh, email, bounce_increment, clock)
    /\ UNCHANGED <<msgs, wk, sw, dr, pub, statusQ, bl, clock, writes, epoch, cnt, us>>

RecordBounceLog(email, bounce_increment) ==
    /\ bl[email].bounce_count + bounce_increment <= MaxBounces
    /\ bl' = create_or_update_bounce_log(bl, email, bounce_increment, clock)
    /\ UNCHANGED <<msgs, wk, sw, dr, pub, statusQ, bh, clock, writes, epoch, cnt, us>>

InitLedger ==
    /\ Quiet
    /\ bh = [a \in Addrs |-> NoRecord]
    /\ bl = [a \in Addrs |-> NoRecord]
    /\ cnt = [NoCnt EXCEPT !.adv = MaxAdvance]
    /\ us = UsOff

NextLedger ==
    \/ \E bounce_increment \in BounceIncrements :
          RecordBounceHistory("a", bounce_increment)
    \/ \E bounce_increment \in BounceIncrements :
          RecordBounceLog("a", bounce_increment)
    \/ \E d \in ClockSteps : Tick(d)

SpecLedger == InitLedger /\ [][NextLedger]_vars

----------------------------------------------------------------------------
(* create_or_update_bounce_history run by concurrent workers for one address: *)
(* the rows of Bounce History for the address, and each worker's document    *)

RaceWorkers == {"w1", "w2"}

NoBounceDoc == [pc |-> "idle", name |-> 0, bounce_count |-> 0, modified |-> 0,
                left |-> 0]

\* frappe.db.exists and, for a row found, frappe.get_doc and the increment; a
\* new document otherwise
BhLoad(w) ==
    /\ us.phase = "race"
    /\ us.w[w].pc = "idle"
    /\ us.w[w].left > 0
    /\ us' = [us EXCEPT
                 !.calls = @ + 1,
                 !.w[w] = IF us.rows # <<>>
                          THEN [@ EXCEPT !.pc = "loaded", !.name = 1,
                                         !.bounce_count = us.rows[1].bounce_count + 1,
                                         !.modified = us.rows[1].modified,
                                         !.left = @ - 1]
                          ELSE [@ EXCEPT !.pc = "loaded", !.name = 0,
                                         !.bounce_count = 1,
                                         !.left = @ - 1]]
    /\ UNCHANGED <<msgs, wk, sw, dr, pub, statusQ, bh, bl, clock, writes, epoch, cnt>>

\* doc.save(): a new document is inserted, or refused when a row for the email
\* exists and the email is a unique key (the doctype's definition decides); a
\* loaded document is written unless the row was modified since it was loaded
BhSave(w) ==
    /\ us.phase = "race"
    /\ us.w[w].pc = "loaded"
    /\ LET doc == us.w[w]
           row == [bounce_count |-> doc.bounce_count, modified |-> us.stamp + 1]
       IN  \E unique \in BOOLEAN :
              us' = [us EXCEPT
                        !.w[w] = [NoBounceDoc EXCEPT !.left = doc.left],
                        !.stamp = @ + 1,
                        !.rows = IF doc.name = 0
                                 THEN IF unique /\ us.rows # <<>> THEN @
                                      ELSE Append(@, row)
                                 ELSE IF us.rows[doc.name].modified # doc.modified
                                      THEN @
                                      ELSE [@ EXCEPT ![doc.name] = row]]
    /\ UNCHANGED <<msgs, wk, sw, dr, pub, statusQ, bh, bl, clock, writes, epoch, cnt>>

InitRace ==
    /\ Quiet
    /\ bh = [a \in Addrs |-> NoRecord]
    /\ bl = [a \in Addrs |-> NoRecord]
    /\ cnt = NoCnt
    /\ \E rows \in {<<>>, <<[bounce_count |-> 1, modified |-> 0]>>} :
          us = [phase |-> "race", rows |-> rows, stamp |-> 0, calls |-> 0,
                before |-> IF rows = <<>> THEN 0 ELSE rows[1].bounce_count,
                w |-> [w \in RaceWorkers |->
                          [NoBounceDoc EXCEPT !.left = MaxRecordings]]]

NextRace ==
    \/ \E w \in RaceWorkers : BhLoad(w)
    \/ \E w \in RaceWorkers : BhSave(w)

SpecRace == InitRace /\ [][NextRace]_vars

----------------------------------------------------------------------------
(* The gate's decision on its own: one In Progress document, the blocklist,
   the settings and the spam check's result drawn from all their values *)

SpamScores == {0, 1, 2}        \* spam_score of the Spam Check Log
SpamThresholds == {0, 1}       \* outbound_spam_threshold of the settings

\* is_spam_detection_enabled_for_outbound()
is_spam_detection_enabled_for_outbound(enable_spam_detection, enable_for_outbound) ==
    enable_spam_detection /\ enable_for_outbound

\* the document the gate reloads: In Progress, its recipients' statuses unset
GateDoc(rcpts) ==
    [NoDoc EXCEPT !.status = "In Progress",
                  !.recipients = [i \in DOMAIN rcpts |-> NewRcpt(rcpts[i])]]

NoKwargs == [blocked |-> {}, status |-> "", error |-> "",
             spam_checked |-> FALSE, is_spam |-> FALSE]

\* _prepare_delivery_args() with is_spam = spam_score > outbound_spam_threshold
GateDecide ==
    /\ us.phase = "gate"
    /\ us' = [us EXCEPT
                !.phase = "decided",
                !.kwargs = prepare_delivery_args(
                    GateDoc(us.rcpts), bl, clock,
                    is_spam_detection_enabled_for_outbound(
                        us.enable_spam_detection,
                        us.enable_spam_detection_for_outbound),
                    check_for_spam(us.block_outbound_invalid_dkim, us.dkim_invalid,
                                   us.block_outbound_spam,
                                   us.spam_score > us.outbound_spam_threshold))]
    /\ UNCHANGED <<msgs, wk, sw, dr, pub, statusQ, bh, bl, clock, writes, epoch, cnt>>

InitGate ==
    /\ Quiet
    /\ bh = [a \in Addrs |-> NoRecord]
    /\ bl \in {BounceLogAfter(B) : B \in SUBSET Addrs}
    /\ cnt = NoCnt
    /\ us \in [phase : {"gate"}, rcpts : RcptLists,
               enable_spam_detection : BOOLEAN,
               enable_spam_detection_for_outbound : BOOLEAN,
               block_outbound_invalid_dkim : BOOLEAN, dkim_invalid : BOOLEAN,
               block_outbound_spam : BOOLEAN,
               spam_score : SpamScores, outbound_spam_threshold : SpamThresholds,
               kwargs : {NoKwargs}]

NextGate == GateDecide

SpecGate == InitGate /\ [][NextGate]_vars

----------------------------------------------------------------------------
(* The last retry: one stored message whose publish has already failed four
   times, the sweep, and an operator who may retry it *)

ExhaustingDocs ==
    {[NoDoc EXCEPT !.status = status, !.priority = priority, !.received_at = 0,
                   !.failed_count = MAX_FAILED_COUNT - 1, !.retry_after = 0,
                   !.recipients = [i \in DOMAIN rcpts |-> NewRcpt(rcpts[i])]] :
        status \in {"Accepted", "Failed"}, priority \in Priorities \ {3},
        rcpts \in RcptLists}

InitExhaust ==
    /\ msgs \in {[m \in Msgs |-> IF m = MsgOrder[1] THEN doc ELSE NoDoc] :
                    doc \in ExhaustingDocs}
    /\ wk = [w \in Workers |-> Idle]
    /\ sw = SwIdle
    /\ dr = FALSE
    /\ pub = [m \in Msgs |-> <<>>]
    /\ statusQ = <<>>
    /\ clock = 0
    /\ writes = NoWrites
    /\ epoch = [m \in Msgs |-> 0]
    /\ bh = [a \in Addrs |-> NoRecord]
    /\ bl = [a \in Addrs |-> NoRecord]
    /\ cnt = [NoCnt EXCEPT !.adv = MaxAdvance, !.ops = MaxOps,
                           !.fail = MaxBrokerFailures]
    /\ us = UsOff

NextExhaust ==
    \/ SwStart \/ SwSelect \/ SwMark \/ SwPublish \/ SwFinish \/ SwFail
    \/ \E m \in Msgs : retry_failed(m) \/ push_to_queue(m)
    \/ PushBegin("op") \/ PushPublish("op") \/ PushFinish("op") \/ PushFail("op")
    \/ \E d \in ClockSteps : Tick(d)

SpecExhaust == InitExhaust /\ [][NextExhaust]_vars

----------------------------------------------------------------------------
(* The drain loop with handlers that may raise: one stored message, a status
   queue of events, and up to MaxRuns calls of
   fetch_and_update_delivery_statuses *)

\* the payloads basic_get may return: the four hooks, each with a handler that
\* succeeds or raises on it, and a body json.loads or data["hook"] raises on
DrainPayloads ==
    [hook : Hooks, raises : BOOLEAN] \cup [hook : {"malformed"}, raises : {TRUE}]

\* the event with this payload, reporting on the first recipient of the
\* stored message
DrainEventOf(id, payload) ==
    [id |-> id, hook |-> payload.hook, raises |-> payload.raises,
     outgoing_mail_log |-> MsgOrder[1],
     rcpt_to |-> IF payload.hook = "queue_ok" THEN {} ELSE {"a"},
     retries |-> 0,
     action_at |-> IF payload.hook = "queue_ok" THEN NULL ELSE 0]

DrainQueues ==
    UNION {{[i \in 1 .. n |-> DrainEventOf(i, q[i])] : q \in [1 .. n -> DrainPayloads]} :
              n \in 0 .. MaxQueue}

\* the stored message: published and waiting for its outcome, or failed
DrainDocs ==
    {[NoDoc EXCEPT !.status = status, !.priority = 1, !.received_at = 0,
                   !.failed_count = IF status = "Failed" THEN 1 ELSE 0,
                   !.retry_after = IF status = "Failed"
                                   THEN retry_after_delay(1) ELSE NULL,
                   !.recipients = [i \in DOMAIN rcpts |-> NewRcpt(rcpts[i])]] :
        status \in {"Queued (RMQ)", "Failed"}, rcpts \in RcptLists}

\* the exception leaves the handler and the loop: queue_ok has no try, and
\* json.loads and data["hook"] run in the loop itself
propagates(data) ==
    data.hook = "malformed" \/ (data.hook = "queue_ok" /\ data.raises)

\* the exception is caught and logged inside undelivered or delivered
swallowed(data) ==
    data.hook \in {"bounce", "deferred", "delivered"} /\ data.raises

\* fetch_and_update_delivery_statuses is called: has_unsynced_mails, then
\* rabbitmq_context opens the connection
DrainStart ==
    /\ us.phase = "drain" /\ us.run = "idle"
    /\ us.calls < MaxRuns
    /\ us' = IF ~has_unsynced_mails
             THEN [us EXCEPT !.calls = @ + 1, !.skipped = @ + 1]
             ELSE [us EXCEPT !.calls = @ + 1, !.run = "loop",
                             !.opened = @ + 1, !.open = TRUE,
                             !.fetched = {}, !.stopped = FALSE]
    /\ UNCHANGED <<msgs, wk, sw, dr, pub, statusQ, bh, bl, clock, writes, epoch, cnt>>

\* One turn of the loop: basic_get, json.loads, the handler, basic_ack. An
\* exception that leaves the loop ends the run; the connection is closed and
\* the broker puts the unacknowledged event back at the head of the queue.
DrainEvent ==
    /\ us.phase = "drain" /\ us.run = "loop"
    /\ statusQ # <<>>
    /\ LET data == Head(statusQ)
           m == data.outgoing_mail_log
           done == handle(msgs[m], data)
       IN  IF propagates(data)
           THEN /\ us' = [us EXCEPT !.run = "idle", !.open = FALSE,
                                    !.stopped = TRUE,
                                    !.fetched = @ \cup {data.id}]
                /\ UNCHANGED <<msgs, bh, statusQ>>
           ELSE IF swallowed(data)
           THEN /\ us' = [us EXCEPT !.fetched = @ \cup {data.id},
                                    !.acked = @ \cup {data.id}]
                /\ statusQ' = Tail(statusQ)
                /\ UNCHANGED <<msgs, bh>>
           ELSE /\ msgs' = [msgs EXCEPT ![m] = done.doc]
                /\ bh' = record_bounces(bh, msgs[m].recipients,
                                        Len(msgs[m].recipients), data)
                /\ us' = [us EXCEPT !.fetched = @ \cup {data.id},
                                    !.applied = @ \cup {data.id},
                                    !.acked = @ \cup {data.id}]
                /\ statusQ' = Tail(statusQ)
    /\ UNCHANGED <<wk, sw, dr, pub, bl, clock, writes, epoch, cnt>>

\* basic_get finds the queue empty: break, and the connection is closed
DrainEnd ==
    /\ us.phase = "drain" /\ us.run = "loop"
    /\ statusQ = <<>>
    /\ us' = [us EXCEPT !.run = "idle", !.open = FALSE]
    /\ UNCHANGED <<msgs, wk, sw, dr, pub, statusQ, bh, bl, clock, writes, epoch, cnt>>

InitDrain ==
    /\ msgs \in {[m \in Msgs |-> IF m = MsgOrder[1] THEN doc ELSE NoDoc] :
                    doc \in DrainDocs}
    /\ wk = [w \in Workers |-> Idle]
    /\ sw = SwIdle
    /\ dr = FALSE
    /\ pub = [m \in Msgs |-> <<>>]
    /\ statusQ \in DrainQueues
    /\ clock = 0
    /\ writes = NoWrites
    /\ epoch = [m \in Msgs |-> 0]
    /\ bh = [a \in Addrs |-> NoRecord]
    /\ bl = [a \in Addrs |-> NoRecord]
    /\ cnt = NoCnt
    /\ us = [phase |-> "drain", run |-> "idle", calls |-> 0, skipped |-> 0,
             opened |-> 0, open |-> FALSE, stopped |-> FALSE,
             fetched |-> {}, applied |-> {}, acked |-> {},
             queue0 |-> statusQ, msgs0 |-> msgs]

NextDrain == DrainStart \/ DrainEvent \/ DrainEnd

SpecDrain == InitDrain /\ [][NextDrain]_vars

----------------------------------------------------------------------------
(* One operator request on one stored message: the caller with or without the
   System Manager role, the whitelisted method it calls, and the publish that
   may follow *)

OperatorActions ==
    {"force_accept", "retry_failed", "force_push_to_queue", "retry_bounced",
     "push_to_queue"}

\* the methods that begin with frappe.only_for("System Manager")
only_for == {"force_accept", "force_push_to_queue", "retry_bounced"}

\* the statuses of the recipients of a stored message with this status; with
\* partly, only the first recipient of several was found on the blocklist
StoredRcptStatus(status, i, partly) ==
    IF partly
    THEN (IF i = 1 THEN "Blocked"
          ELSE IF status \in {"Sent", "Bounced", "Deferred"} THEN status
          ELSE "")
    ELSE IF status = "Blocked" THEN "Blocked"
    ELSE IF status \in {"Sent", "Bounced", "Deferred"} THEN status
    ELSE IF status = "Partially Sent" THEN (IF i = 1 THEN "Sent" ELSE "Bounced")
    ELSE ""

StoredRcpts(status, rcpts, partly) ==
    [i \in DOMAIN rcpts |->
        [NewRcpt(rcpts[i]) EXCEPT
            !.status = StoredRcptStatus(status, i, partly),
            !.error_message = IF StoredRcptStatus(status, i, partly) = "Blocked"
                              THEN "blocklist" ELSE ""]]

\* the failed_count a stored message with this status may have
StoredFailedCounts(status) ==
    IF status = "Failed" THEN {1, MAX_FAILED_COUNT - 1, MAX_FAILED_COUNT}
    ELSE IF status \in {"In Progress", "Blocked"} THEN {0}
    ELSE {0, MAX_FAILED_COUNT}

StoredDoc(status, priority, rcpts, partly, failed_count) ==
    [NoDoc EXCEPT !.status = status, !.priority = priority, !.received_at = 0,
                  !.failed_count = failed_count,
                  !.retry_after = IF failed_count = 0 THEN NULL ELSE 0,
                  !.error_message = IF status # "Blocked" THEN ""
                                    ELSE IF partly THEN "spam" ELSE "blocklist",
                  !.recipients = StoredRcpts(status, rcpts, partly)]

StoredDocs ==
    {StoredDoc(t.status, t.priority, t.rcpts, t.partly, t.failed_count) :
        t \in {u \in [status : Statuses \ {"Queuing (RMQ)"}, priority : {1, 3},
                      rcpts : RcptLists, partly : BOOLEAN,
                      failed_count : 0 .. MAX_FAILED_COUNT] :
                  /\ u.failed_count \in StoredFailedCounts(u.status)
                  /\ u.status = "Partially Sent" => Len(u.rcpts) > 1 /\ ~u.partly
                  /\ u.partly => Len(u.rcpts) > 1 /\ u.status # "In Progress"}}

\* frappe.only_for("System Manager") at the top of the method
OperatorAdmit ==
    /\ us.phase = "operator" /\ us.step = "call"
    /\ us' = [us EXCEPT !.step = IF us.action \in only_for /\ ~us.role
                                 THEN "rejected" ELSE "admitted"]
    /\ UNCHANGED <<msgs, wk, sw, dr, pub, statusQ, bh, bl, clock, writes, epoch, cnt>>

\* the body of the method, on a message its test of the status lets through
OperatorRun ==
    /\ us.phase = "operator" /\ us.step = "admitted"
    /\ LET m == MsgOrder[1]
       IN  \/ us.action = "force_accept" /\ force_accept(m)
           \/ us.action = "retry_failed" /\ retry_failed(m)
           \/ us.action = "force_push_to_queue" /\ force_push_to_queue(m)
           \/ us.action = "retry_bounced" /\ retry_bounced(m)
           \/ us.action = "push_to_queue" /\ push_to_queue(m)

InitOperator ==
    /\ msgs \in {[m \in Msgs |-> IF m = MsgOrder[1] THEN doc ELSE NoDoc] :
                    doc \in StoredDocs}
    /\ wk = [w \in Workers |-> Idle]
    /\ sw = SwIdle
    /\ dr = FALSE
    /\ pub = [m \in Msgs |-> <<>>]
    /\ statusQ = <<>>
    /\ clock = 0
    /\ writes = NoWrites
    /\ epoch = [m \in Msgs |-> 0]
    /\ bh = [a \in Addrs |-> NoRecord]
    /\ bl = [a \in Addrs |-> NoRecord]
    /\ cnt = [NoCnt EXCEPT !.ops = 1, !.fail = 1]
    /\ us \in [phase : {"operator"}, step : {"call"}, role : BOOLEAN,
               action : OperatorActions, msgs0 : {msgs}]

NextOperator ==
    \/ OperatorAdmit
    \/ OperatorRun
    \/ PushBegin("op") \/ PushPublish("op") \/ PushFinish("op") \/ PushFail("op")

SpecOperator == InitOperator /\ [][NextOperator]_vars

----------------------------------------------------------------------------
(* Intake with its validation: one create_outgoing_mail_log call on a message
   with or without a DKIM-Signature header, from a domain the caller owns or
   not, verified or not *)

XPriorities == {0 - 1, 0, 1, 2, 3, 5}      \* cint of the X-Priority header

\* validate(): the exception it raises, "" when it passes. frappe.throw without
\* a class raises ValidationError
validate(has_dkim, owned, verified) ==
    IF ~has_dkim THEN "ValidationError"
    ELSE IF owned /\ verified THEN ""
    ELSE IF owned THEN "ValidationError"
    ELSE "PermissionError"

\* log.insert(): validate, then the row and after_insert's
\* enqueue_process_for_delivery; nothing is stored when validate raises
IntakeCall ==
    /\ us.phase = "intake" /\ us.step = "call"
    /\ LET m == MsgOrder[1]
           error == validate(us.has_dkim, us.owned, us.verified)
       IN  /\ us' = [us EXCEPT !.step = "done", !.error = error]
           /\ IF error = ""
              THEN /\ msgs' = [msgs EXCEPT ![m] =
                                 [NoDoc EXCEPT !.status = "In Progress",
                                               !.priority = validate_priority(us.x_priority),
                                               !.received_at = clock,
                                               !.recipients = SeqMap(NewRcpt, us.rcpts)]]
                   /\ wk' = [wk EXCEPT ![m] = [Idle EXCEPT !.pc = "enqueued", !.m = m]]
              ELSE UNCHANGED <<msgs, wk>>
    /\ UNCHANGED <<sw, dr, pub, statusQ, bh, bl, clock, writes, epoch, cnt>>

InitIntake ==
    /\ Quiet
    /\ bh = [a \in Addrs |-> NoRecord]
    /\ bl = [a \in Addrs |-> NoRecord]
    /\ cnt = NoCnt
    /\ us \in [phase : {"intake"}, step : {"call"}, error : {""},
               has_dkim : BOOLEAN, owned : BOOLEAN, verified : BOOLEAN,
               x_priority : XPriorities, rcpts : RcptLists]

NextIntake == IntakeCall

SpecIntake == InitIntake /\ [][NextIntake]_vars

----------------------------------------------------------------------------
(* The sweep with its broker connection: rabbitmq_context, RabbitMQ._connect
   and close_connection around the publish loop of push_emails_to_queue *)

max_retries == 3
MaxSweepFailures == 4      \* broker failures that reach the sweep's except branch
MaxSweepAdvance == 3       \* advances of the clock between the sweep's iterations

\* no rabbitmq_context block is open: no RabbitMQ object, no connection
NoBroker == [phase |-> "broker", ctx |-> "out", attempt |-> 0, held |-> FALSE,
             open |-> 0, failures |-> 0]

\* with rabbitmq_context(): get_connection() builds the RabbitMQ object, whose
\* __init__ calls _connect
rabbitmq_context ==
    /\ us.phase = "broker" /\ us.ctx = "out"
    /\ sw.pc = "publishing"
    /\ us' = [us EXCEPT !.ctx = "connecting", !.attempt = 0, !.failures = 0,
                        !.held = FALSE]
    /\ UNCHANGED <<msgs, wk, sw, dr, pub, statusQ, bh, bl, clock, writes, epoch, cnt>>

\* One turn of the for loop of _connect. A connection that opens replaces
\* self._connection and the loop goes on to the next attempt: nothing leaves
\* the loop but the raise of the last attempt. The object is returned when the
\* last attempt opened a connection.
connect(opens) ==
    /\ us.phase = "broker" /\ us.ctx = "connecting"
    /\ us.attempt < max_retries
    /\ opens \/ us.attempt < max_retries - 1 \/ cnt.fail > 0
    /\ us' = [us EXCEPT
                !.attempt = @ + 1,
                !.failures = IF opens THEN @ ELSE @ + 1,
                !.open = IF opens THEN @ + 1 ELSE @,
                !.held = IF opens THEN TRUE ELSE @,
                !.ctx = IF us.attempt < max_retries - 1 THEN "connecting"
                        ELSE IF opens THEN "in" ELSE "raised"]
    /\ UNCHANGED <<msgs, wk, sw, dr, pub, statusQ, bh, bl, clock, writes, epoch, cnt>>

\* rmq.publish raises inside the block: finally close_connection() closes
\* self._connection
publish_raises ==
    /\ us.phase = "broker" /\ us.ctx = "in"
    /\ cnt.fail > 0
    /\ us' = [us EXCEPT !.ctx = "raised", !.held = FALSE,
                        !.open = IF us.held THEN @ - 1 ELSE @]
    /\ UNCHANGED <<msgs, wk, sw, dr, pub, statusQ, bh, bl, clock, writes, epoch, cnt>>

\* the block ends after the last publish: finally close_connection()
close_connection ==
    /\ us.phase = "broker" /\ us.ctx = "in"
    /\ sw.i > Len(sw.batch)
    /\ us' = [us EXCEPT !.ctx = "closed", !.held = FALSE,
                        !.open = IF us.held THEN @ - 1 ELSE @]
    /\ UNCHANGED <<msgs, wk, sw, dr, pub, statusQ, bh, bl, clock, writes, epoch, cnt>>

\* the iteration is over: the next one builds a new RabbitMQThreadLocal
BrokerLeave ==
    /\ us.phase = "broker" /\ us.ctx \in {"closed", "raised"}
    /\ sw.pc # "publishing"
    /\ us' = [us EXCEPT !.ctx = "out", !.attempt = 0, !.failures = 0]
    /\ UNCHANGED <<msgs, wk, sw, dr, pub, statusQ, bh, bl, clock, writes, epoch, cnt>>

\* the steps of the sweep, each where the block stands in its iteration
BrokerMark == us.ctx = "out" /\ SwMark
BrokerPublish == us.ctx = "in" /\ SwPublish
BrokerFinish == us.ctx = "closed" /\ SwFinish
BrokerFail == us.ctx = "raised" /\ SwFail

InitBroker ==
    /\ msgs \in {[m \in Msgs |-> IF m = MsgOrder[1]
                                 THEN StoredDoc("Accepted", priority, rcpts, FALSE, 0)
                                 ELSE NoDoc] :
                    priority \in Priorities, rcpts \in RcptLists}
    /\ wk = [w \in Workers |-> Idle]
    /\ sw = SwIdle
    /\ dr = FALSE
    /\ pub = [m \in Msgs |-> <<>>]
    /\ statusQ = <<>>
    /\ clock = 0
    /\ writes = NoWrites
    /\ epoch = [m \in Msgs |-> 0]
    /\ bh = [a \in Addrs |-> NoRecord]
    /\ bl = [a \in Addrs |-> NoRecord]
    /\ cnt = [NoCnt EXCEPT !.adv = MaxSweepAdvance, !.fail = MaxSweepFailures]
    /\ us = NoBroker

NextBroker ==
    \/ SwStart \/ SwSelect
    \/ BrokerMark \/ BrokerPublish \/ BrokerFinish \/ BrokerFail
    \/ rabbitmq_context
    \/ \E opens \in BOOLEAN : connect(opens)
    \/ publish_raises \/ close_connection \/ BrokerLeave
    \/ \E d \in ClockSteps : Tick(d)

SpecBroker == InitBroker /\ [][NextBroker]_vars

\* the scheduler runs the job on; time passes only between its steps
SpecBrokerLive == SpecBroker /\ WF_vars(NextBroker)

----------------------------------------------------------------------------
(* One message and an operator who makes a second request: what the first
   request and the jobs left behind is what the second request finds *)

MaxRequests == 2

InitRequests ==
    /\ Quiet
    /\ bh = [a \in Addrs |-> NoRecord]
    /\ bl \in {BounceLogAfter(B) : B \in BlockedAtStart}
    /\ cnt = [NoCnt EXCEPT !.intake = 1, !.fail = MaxBrokerFailures,
                           !.ops = MaxRequests]
    /\ us = UsOff

\* intake, the gate job, the single publish and the operator's methods that a
\* message without an outcome admits
NextRequests ==
    \/ \E priority \in Priorities, rcpts \in RcptLists :
          Intake(MsgOrder[1], priority, rcpts)
    \/ \E m \in Msgs : GateRead(m)
    \/ \E m \in Msgs : GateWrite(m)
    \/ \E w \in Workers : PushBegin(w)
    \/ \E w \in Workers : PushPublish(w)
    \/ \E w \in Workers : PushFinish(w)
    \/ \E w \in Workers : PushFail(w)
    \/ \E m \in Msgs : force_accept(m)
    \/ \E m \in Msgs : retry_failed(m)
    \/ \E m \in Msgs : force_push_to_queue(m)
    \/ \E m \in Msgs : push_to_queue(m)

SpecRequests == InitRequests /\ [][NextRequests]_vars

----------------------------------------------------------------------------
(* SMTPConnectionPool and IMAPConnectionPool, which differ in the class of
   their connections only: the pool of one key (host, port, username) and the
   threads that call get_connection and return_connection on it *)

max_connections == 2

\* one thread more than the pool has places
PoolThreads == 1 .. max_connections + 1

\* a connection is known by a number; one that was closed gives its number back
PoolConns == 1 .. 2 * max_connections + 1

\* pool: the Queue(max_connections) of the key; pc[t]: where thread t stands in
\* get_connection; held[t]: the connection t was given, 0 for none
NoPool == [phase |-> "pool", pool |-> <<>>,
           pc |-> [t \in PoolThreads |-> "idle"],
           held |-> [t \in PoolThreads |-> 0],
           raised |-> [t \in PoolThreads |-> FALSE]]

InUse == {us.pool[i] : i \in DOMAIN us.pool} \cup {us.held[t] : t \in PoolThreads}

\* _create_connection
create_connection == CHOOSE c \in PoolConns \ InUse : \A d \in PoolConns \ InUse : c <= d

PoolFrame == UNCHANGED <<msgs, wk, sw, dr, pub, statusQ, bh, bl, clock, writes, epoch, cnt>>

\* get_connection up to `if not pool.empty()`: with Lock() takes a lock made for
\* this call, which no other thread holds
pool_empty(t) ==
    /\ us.phase = "pool" /\ us.pc[t] = "idle" /\ us.held[t] = 0
    /\ us' = [us EXCEPT !.pc[t] = IF us.pool # <<>> THEN "get" ELSE "qsize",
                        !.raised[t] = FALSE]
    /\ PoolFrame

\* return pool.get(): Queue.get() with block=True waits while the queue is empty
pool_get(t) ==
    /\ us.phase = "pool" /\ us.pc[t] = "get"
    /\ us.pool # <<>>
    /\ us' = [us EXCEPT !.pc[t] = "idle", !.held[t] = Head(us.pool),
                        !.pool = Tail(us.pool)]
    /\ PoolFrame

\* if pool.qsize() < max_connections: a new connection; else the limit error
pool_qsize(t) ==
    /\ us.phase = "pool" /\ us.pc[t] = "qsize"
    /\ us' = IF Len(us.pool) < max_connections
             THEN [us EXCEPT !.pc[t] = "idle", !.held[t] = create_connection]
             ELSE [us EXCEPT !.pc[t] = "idle", !.raised[t] = TRUE]
    /\ PoolFrame

\* return_connection, under _pool_lock: put if the queue has room, else quit
return_connection(t) ==
    /\ us.phase = "pool" /\ us.pc[t] = "idle" /\ us.held[t] # 0
    /\ us' = [us EXCEPT !.held[t] = 0,
                        !.pool = IF Len(us.pool) < max_connections
                                 THEN Append(@, us.held[t]) ELSE @]
    /\ PoolFrame

\* the with block of the context raised: __exit__ closes the connection
quit(t) ==
    /\ us.phase = "pool" /\ us.pc[t] = "idle" /\ us.held[t] # 0
    /\ us' = [us EXCEPT !.held[t] = 0]
    /\ PoolFrame

InitPool ==
    /\ Quiet
    /\ bh = [a \in Addrs |-> NoRecord]
    /\ bl = [a \in Addrs |-> NoRecord]
    /\ cnt = NoCnt
    /\ us = NoPool

NextPool ==
    \E t \in PoolThreads :
       \/ pool_empty(t)
       \/ pool_get(t)
       \/ pool_qsize(t)
       \/ return_connection(t)
       \/ quit(t)

SpecPool == InitPool /\ [][NextPool]_vars

----------------------------------------------------------------------------
(* The full send: one message to one address, spam detection disabled, a
   working broker, and a transfer agent that reports queue_ok and then
   delivered *)

SendMsg == MsgOrder[1]
SendRcpts == <<"a">>
SendEvents == <<"queue_ok", "delivered">>

\* is_spam_detection_enabled_for_outbound() is false: _check_for_spam is not
\* called and adds nothing to kwargs
NoSpamCheck == check_for_spam(FALSE, FALSE, FALSE, FALSE)

SendIntake == \E priority \in Priorities : Intake(SendMsg, priority, SendRcpts)

\* process_for_delivery with spam detection disabled
SendGateRead ==
    /\ GateRead(SendMsg)
    /\ LET d == prepare_delivery_args(msgs[SendMsg], bl, clock, FALSE, NoSpamCheck)
       IN  wk'[SendMsg].pc = "decided" =>
              /\ wk'[SendMsg].status = d.status
              /\ wk'[SendMsg].error = d.error

SendGate == SendGateRead \/ GateWrite(SendMsg)

SendPush == PushPublish(SendMsg) \/ PushFinish(SendMsg)

SendSweep == SwStart \/ SwSelect \/ SwMark \/ SwPublish \/ SwFinish

\* the transfer agent: the events of SendEvents, in this order
SendAgent ==
    /\ cnt.ev > 0
    /\ LET hook == SendEvents[Len(SendEvents) - cnt.ev + 1]
       IN  \E retries \in Retries :
              AgentEmit(SendMsg, hook,
                        IF hook = "queue_ok" THEN {}
                        ELSE {SendRcpts[i] : i \in DOMAIN SendRcpts}, retries)

SendDrain == DrStart \/ DrEvent \/ DrEnd

\* the other address may be on the blocklist, the recipient is not
InitSend ==
    /\ Quiet
    /\ bh = [a \in Addrs |-> NoRecord]
    /\ bl \in {BounceLogAfter(B) : B \in {{}, {"b"}}}
    /\ cnt = [NoCnt EXCEPT !.intake = 1, !.ev = Len(SendEvents)]
    /\ us = UsOff

NextSend ==
    \/ SendIntake
    \/ SendGate
    \/ SendPush
    \/ SendSweep
    \/ SendAgent
    \/ SendDrain

\* the web request, the background worker, the scheduler's two jobs and the
\* transfer agent each run on
SpecSend ==
    /\ InitSend /\ [][NextSend]_vars
    /\ WF_vars(SendIntake) /\ WF_vars(SendGate) /\ WF_vars(SendPush)
    /\ WF_vars(SendSweep) /\ WF_vars(SendAgent) /\ WF_vars(SendDrain)

----------------------------------------------------------------------------
(* Properties *)

AnyIs(v, k) == \E i \in DOMAIN v : v[i] = k
AllAre(v, k) == \A i \in DOMAIN v : v[i] = k

\* The step is one turn of the drain loop: the oldest event leaves the queue
EventStep == dr /\ statusQ # <<>> /\ statusQ' = Tail(statusQ)

\* The edges of the state machine as section 4.1 draws it
MachineEdges ==
    {<<"In Progress", "Accepted">>, <<"In Progress", "Blocked">>,
     <<"Accepted", "Queuing (RMQ)">>, <<"Blocked", "Queuing (RMQ)">>,
     <<"Queuing (RMQ)", "Queued (RMQ)">>, <<"Queued (RMQ)", "Queued (Haraka)">>,
     <<"Queued (Haraka)", "Sent">>, <<"Queued (Haraka)", "Partially Sent">>,
     <<"Queued (Haraka)", "Deferred">>, <<"Queued (Haraka)", "Bounced">>,
     <<"Queued (Haraka)", "Failed">>,
     <<"Failed", "Accepted">>, <<"Bounced", "Accepted">>, <<"Blocked", "Accepted">>}

\* The statuses m went through in the step, from the one before it to the one
\* after it
StatusPath(m) == <<msgs[m].status>> \o writes'[m] \o <<msgs'[m].status>>

\* C1: every change of a message's status follows an edge of the state machine
\* In Progress -> {Accepted, Blocked} -> Queuing (RMQ) -> Queued (RMQ) ->
\* Queued (Haraka) -> {Sent, Partially Sent, Deferred, Bounced, Failed}, or one
\* of Failed -> Accepted, Bounced -> Accepted, Blocked -> Accepted; and the
\* status is never outside this set.
C1_StateMachine ==
    [][\A m \in Msgs :
          /\ msgs'[m].status \in Statuses \cup {""}
          /\ \A i \in 1 .. Len(StatusPath(m)) - 1 :
                LET from == StatusPath(m)[i]
                    to == StatusPath(m)[i + 1]
                IN  \/ from = to
                    \/ from = "" /\ to = "In Progress"
                    \/ <<from, to>> \in MachineEdges]_vars

\* C2: no message has two broker messages published for it on the work queue
\* unless the operator asked for it to be queued again (retry_failed,
\* retry_bounced, force_push_to_queue) between the two publishes.
C2_AtMostOnceQueuing ==
    \A m \in Msgs : \A i, j \in DOMAIN pub[m] :
        i < j => pub[m][i].epoch < pub[m][j].epoch

\* C3: a recipient that is Sent keeps this status through every bounce,
\* deferred or delivered event the reconciler handles in the same delivery
\* attempt (here: the message was published once and never queued again).
C3_SentIsTerminal ==
    [][EventStep =>
          LET data == Head(statusQ)
              m == data.outgoing_mail_log
          IN  (/\ data.hook \in {"bounce", "deferred", "delivered"}
               /\ Len(pub[m]) = 1
               /\ epoch[m] = 0)
              => \A i \in DOMAIN msgs[m].recipients :
                    msgs[m].recipients[i].status = "Sent"
                    => msgs'[m].recipients[i].status = "Sent"]_vars

\* C4 (as amended): update_status() sets the status Blocked if every recipient
\* is Blocked; otherwise Deferred if any recipient is Deferred; else Sent if all
\* are Sent; else Partially Sent if some are Sent; else Bounced if any is
\* Bounced; and it leaves the status as it was when the recipients are only
\* Blocked and unset ones.
C4_AggregateRule ==
    us.phase = "done" =>
        us.status =
            IF AllAre(us.rcpts, "Blocked") THEN "Blocked"
            ELSE IF AnyIs(us.rcpts, "Deferred") THEN "Deferred"
            ELSE IF AllAre(us.rcpts, "Sent") THEN "Sent"
            ELSE IF AnyIs(us.rcpts, "Sent") THEN "Partially Sent"
            ELSE IF AnyIs(us.rcpts, "Bounced") THEN "Bounced"
            ELSE us.cur

\* C4 as the specification has it: with at least one recipient that has a
\* status, the status is Deferred if any recipient is Deferred; else Sent if all
\* are Sent; else Partially Sent if some but not all are Sent; else Bounced.
C4_RuleAsStated ==
    (us.phase = "done" /\ ~AllAre(us.rcpts, "")) =>
        us.status =
            IF AnyIs(us.rcpts, "Deferred") THEN "Deferred"
            ELSE IF AllAre(us.rcpts, "Sent") THEN "Sent"
            ELSE IF AnyIs(us.rcpts, "Sent") THEN "Partially Sent"
            ELSE "Bounced"

\* update_status() has run on recipients that are all Blocked
C4_Witness ==
    /\ us.phase = "done"
    /\ us.rcpts = <<"Blocked", "Blocked">>
    /\ us.cur = "In Progress"
    /\ us.status = "Blocked"

\* The addresses of m's recipients
RcptEmails(m) == {msgs[m].recipients[i].email : i \in DOMAIN msgs[m].recipients}

\* C5: when the reconciler has handled a delivered event for one recipient of
\* a two-recipient message and a bounce event for the other, in either order,
\* the message is Partially Sent; the bounce event raised the bounce count of
\* the address it names by exactly one, and no other step changed a count.
C5_PartialBounce ==
    [][IF EventStep
       THEN LET data == Head(statusQ)
                m == data.outgoing_mail_log
                after == msgs'[m].recipients
            IN  /\ (/\ data.hook \in {"bounce", "delivered"}
                    /\ Len(after) = 2
                    /\ {after[1].status, after[2].status} = {"Sent", "Bounced"})
                   => msgs'[m].status = "Partially Sent"
                /\ \A a \in Addrs :
                      bh'[a].bounce_count =
                          bh[a].bounce_count +
                             (IF data.hook = "bounce" /\ a \in data.rcpt_to
                                                      /\ a \in RcptEmails(m)
                              THEN 1 ELSE 0)
       ELSE bh' = bh]_vars

\* Both events handled: a is Sent, b is Bounced with one bounce on record, and
\* the message is Partially Sent
C5_Witness ==
    \E m \in Msgs :
        /\ Len(msgs[m].recipients) = 2
        /\ msgs[m].recipients[1].status = "Sent"
        /\ msgs[m].recipients[2].status = "Bounced"
        /\ msgs[m].status = "Partially Sent"
        /\ bh[msgs[m].recipients[2].email].bounce_count = 1
        /\ bh[msgs[m].recipients[1].email].bounce_count = 0
        /\ statusQ = <<>>

\* C6: handling a delivered event a second time leaves the message and its
\* recipients (status, retries, action_at, response) and the bounce records as
\* they are after the first time.
C6_DeliveredTwice ==
    (dr /\ statusQ # <<>> /\ Head(statusQ).hook = "delivered") =>
        LET data == Head(statusQ)
            once == handle(msgs[data.outgoing_mail_log], data).doc
            twice == handle(once, data).doc
        IN  /\ twice = once
            /\ record_bounces(bh, once.recipients, Len(once.recipients), data) = bh

\* The drain loop is about to handle a delivered event it has handled before:
\* the recipient carries what the event says
C6_Witness ==
    /\ dr
    /\ statusQ # <<>>
    /\ Head(statusQ).hook = "delivered"
    /\ LET data == Head(statusQ)
           doc == msgs[data.outgoing_mail_log]
       IN  \E i \in DOMAIN doc.recipients :
              /\ doc.recipients[i].email \in data.rcpt_to
              /\ doc.recipients[i].status = "Sent"
              /\ doc.recipients[i].retries = data.retries
              /\ doc.recipients[i].action_at = data.action_at
              /\ doc.recipients[i].response = <<"delivered">>

\* C7: the rows one iteration of the sweep selects, and publishes one after the
\* other, come by priority descending, then received_at ascending.
C7_SweepOrder ==
    \A i, j \in DOMAIN sw.batch :
        i < j =>
            LET a == sw.batch[i].name
                b == sw.batch[j].name
            IN  \/ msgs[a].priority > msgs[b].priority
                \/ /\ msgs[a].priority = msgs[b].priority
                   /\ msgs[a].received_at <= msgs[b].received_at

\* The sweep has published a batch in which the message of higher priority was
\* received later than the one that follows it
C7_Witness ==
    /\ sw.pc = "publishing"
    /\ Len(sw.batch) = 2
    /\ sw.i > Len(sw.batch)
    /\ msgs[sw.batch[1].name].priority > msgs[sw.batch[2].name].priority
    /\ msgs[sw.batch[1].name].received_at > msgs[sw.batch[2].name].received_at
    /\ \A m \in Msgs : pub[m] # <<>>

\* C8: a failed publish that leaves a message Failed with failed_count n sets
\* retry_after to now + n*(n+1) minutes, in push_to_queue and in the sweep; the
\* delay grows strictly with the count.
C8_Backoff ==
    [][/\ \A m \in Msgs :
             (msgs'[m] # msgs[m] /\ msgs'[m].status = "Failed") =>
                 LET n == msgs'[m].failed_count
                 IN  /\ n >= 1
                     /\ msgs'[m].retry_after = clock + n * (n + 1) * Minute
       /\ \A k \in 0 .. MAX_FAILED_COUNT :
             (k + 1) * (k + 2) * Minute > k * (k + 1) * Minute
             /\ retry_after_delay(k + 1) > retry_after_delay(k)]_vars

\* A message has failed twice: it may be tried again six minutes from now
C8_Witness ==
    \E m \in Msgs :
        /\ msgs[m].status = "Failed"
        /\ msgs[m].failed_count = 2
        /\ msgs[m].retry_after = clock + 6 * Minute
        /\ clock > 0

\* C9: with a clock that never goes back, each further bounce recorded for an
\* address leaves blocked_until where it was or later, in Bounce History and
\* in Bounce Log.
C9_BlockedUntilMonotone ==
    [][\A a \in Addrs :
          /\ (bh[a].bounce_count >= 1 /\ bh'[a].bounce_count > bh[a].bounce_count)
             => bh'[a].blocked_until >= bh[a].blocked_until
          /\ (bl[a].bounce_count >= 1 /\ bl'[a].bounce_count > bl[a].bounce_count)
             => bl'[a].blocked_until >= bl[a].blocked_until]_vars

\* Bounces recorded in both ledgers past the end of their tables, the last of
\* them after the clock advanced
C9_Witness ==
    \E a \in Addrs :
        /\ bh[a].bounce_count > Len(bounce_history_durations)
        /\ bl[a].bounce_count > Len(bounce_log_durations)
        /\ bh[a].last_bounce_at > 0
        /\ bl[a].last_bounce_at > 0

\* C10: recording a bounce that brings the count of an address to c >= 1 sets
\* last_bounce_at to now and blocked_until to now + table[min(c-1, len-1)]
\* days, the table being 1, 7, 30, 36500; the index is within the table, and a
\* count of len or more gives the last entry.
C10_EscalationTable ==
    [][\A a \in Addrs :
          bh'[a].bounce_count # bh[a].bounce_count =>
              LET c == bh'[a].bounce_count
                  table == <<1, 7, 30, 36500>>
                  index == IF c - 1 < Len(table) - 1 THEN c - 1 ELSE Len(table) - 1
              IN  /\ c >= 1
                  /\ index \in 0 .. Len(table) - 1
                  /\ \A i \in 1 .. Len(table) - 1 : table[i] < table[i + 1]
                  /\ bounce_history_durations = table
                  /\ bh'[a].last_bounce_at = clock
                  /\ bh'[a].blocked_until = clock + table[index + 1] * Day
                  /\ c >= Len(table) =>
                        bh'[a].blocked_until = clock + table[Len(table)] * Day]_vars

\* A bounce past the end of the table, recorded after the clock advanced:
\* blocked for 36500 days
C10_Witness ==
    \E a \in Addrs :
        /\ bh[a].bounce_count > 4
        /\ bh[a].last_bounce_at = Day
        /\ bh[a].blocked_until = Day + 36500 * Day

\* C11: when the workers that recorded k bounces for the address have all
\* finished, the address has exactly one bounce record and its count is k more
\* than before.
C11_NoLostBounce ==
    (/\ us.phase = "race"
     /\ us.calls >= 1
     /\ \A w \in RaceWorkers : us.w[w].pc = "idle")
    => /\ Len(us.rows) = 1
       /\ us.rows[1].bounce_count = us.before + us.calls

\* The step is the gate's evaluation of m: reload, In Progress, blocklist
GateStep(m) == wk[m].pc = "enqueued" /\ wk'[m].pc = "decided"

\* C12: once the reconciler has recorded a bounce for an address, the gate's
\* evaluation of a message to that address, run before the record's
\* blocked_until, finds the recipient on the blocklist and marks it Blocked.
C12_BounceFeedback ==
    [][\A m \in Msgs :
          GateStep(m) =>
              \A i \in DOMAIN msgs[m].recipients :
                  LET a == msgs[m].recipients[i].email
                  IN  (bh[a].bounce_count >= 1 /\ bh[a].blocked_until > clock)
                      => a \in wk'[m].blocked]_vars

\* every recipient of the In Progress message m is on the blocklist now
AllListed(m) ==
    /\ msgs[m].status = "In Progress"
    /\ \A i \in DOMAIN msgs[m].recipients :
          is_email_blocked(bl, msgs[m].recipients[i].email, clock)

\* the gate's decision for m was Blocked by the blocklist and is being written
BlocklistWrite(m) ==
    /\ wk[m].pc = "decided" /\ wk'[m].pc # "decided"
    /\ wk[m].status = "Blocked" /\ wk[m].error = "blocklist"

\* m stands Blocked by the blocklist and no operator has force-accepted it
HeldByBlocklist(m) ==
    /\ msgs[m].status = "Blocked" /\ msgs[m].error_message = "blocklist"
    /\ ~msgs[m].forced

\* C13: when every recipient of a message is on the blocklist at the gate, the
\* gate marks every recipient Blocked and the message Blocked with the
\* blocklist error, the spam check is not called whatever its inputs, the
\* gate's operation publishes nothing, and for any priority nothing is
\* published for the message while no operator has force-accepted it.
C13_AllBlocklisted ==
    /\ [](\A m \in Msgs : HeldByBlocklist(m) =>
              /\ pub[m] = <<>>
              /\ \A w \in Workers :
                    wk[w].m = m => wk[w].pc \notin {"publish", "published"})
    /\ [][\A m \in Msgs :
            /\ (GateStep(m) /\ AllListed(m)) =>
                 /\ wk'[m].status = "Blocked" /\ wk'[m].error = "blocklist"
                 /\ wk'[m].blocked = RcptEmails(m) /\ wk'[m].to = {}
                 /\ \A spam_on, block_dkim, dkim_invalid, block_spam, is_spam \in BOOLEAN :
                       ~prepare_delivery_args(msgs[m], bl, clock, spam_on,
                            check_for_spam(block_dkim, dkim_invalid, block_spam,
                                           is_spam)).spam_checked
            /\ BlocklistWrite(m) =>
                 /\ msgs'[m].status = "Blocked"
                 /\ msgs'[m].error_message = "blocklist"
                 /\ \A i \in DOMAIN msgs'[m].recipients :
                       msgs'[m].recipients[i].status = "Blocked"
                 /\ wk'[m] = Idle /\ pub' = pub]_vars

C13_Witness ==
    \E m \in Msgs :
        /\ HeldByBlocklist(m) /\ msgs[m].priority = 3
        /\ Len(msgs[m].recipients) > 0
        /\ \A i \in DOMAIN msgs[m].recipients :
              msgs[m].recipients[i].status = "Blocked"
        /\ wk[m] = Idle /\ pub[m] = <<>>
        /\ \E n \in Msgs \ {m} : pub[n] # <<>>

\* the gate's inputs as the rules name them
GateAllListed ==
    \A i \in DOMAIN us.rcpts : is_email_blocked(bl, us.rcpts[i], clock)

GateScreening == us.enable_spam_detection /\ us.enable_spam_detection_for_outbound

GateAboveThreshold == us.spam_score > us.outbound_spam_threshold

\* C14: the gate's decision is the first rule that matches: every recipient on
\* the blocklist gives Blocked with the blocklist error; screening enabled, a
\* DKIM_INVALID diagnostic and block_outbound_invalid_dkim give Blocked with
\* the DKIM error; screening enabled, a score above the threshold and
\* block_outbound_spam give Blocked with the spam error and is_spam stored as
\* 1; anything else gives Accepted.
C14_GateDecision ==
    us.phase = "decided" =>
        IF GateAllListed
        THEN us.kwargs.status = "Blocked" /\ us.kwargs.error = "blocklist"
        ELSE IF GateScreening /\ us.dkim_invalid /\ us.block_outbound_invalid_dkim
        THEN us.kwargs.status = "Blocked" /\ us.kwargs.error = "dkim"
        ELSE IF GateScreening /\ GateAboveThreshold /\ us.block_outbound_spam
        THEN /\ us.kwargs.status = "Blocked" /\ us.kwargs.error = "spam"
             /\ us.kwargs.is_spam
        ELSE us.kwargs.status = "Accepted" /\ us.kwargs.error = ""

C14_Witness ==
    /\ us.phase = "decided"
    /\ ~GateAllListed /\ GateScreening
    /\ us.dkim_invalid /\ us.block_outbound_invalid_dkim
    /\ GateAboveThreshold /\ us.block_outbound_spam
    /\ us.kwargs.status = "Blocked" /\ us.kwargs.error = "dkim"

\* the sweep's except branch marks m Failed
SweepFails(m) ==
    /\ sw.pc = "publishing" /\ sw'.pc # "publishing"
    /\ m \in BatchNames(sw.batch)
    /\ msgs[m].status = "Queuing (RMQ)" /\ msgs'[m].status = "Failed"

\* the sweep's last UPDATE marks m published
SweepSucceeds(m) ==
    /\ sw.pc = "publishing" /\ sw'.pc # "publishing"
    /\ m \in BatchNames(sw.batch)
    /\ msgs[m].status = "Queuing (RMQ)" /\ msgs'[m].status # "Failed"

\* a SELECT of the sweep gave a batch
SweepSelects == sw.pc \in {"idle", "select"} /\ sw'.pc = "selected"

\* C15: each sweep in which the publish fails raises the message's
\* failed_count by one and sets a retry_after later than the one before, a
\* sweep selects no message whose retry_after has not elapsed, and the sweep
\* whose publish succeeds leaves the message Queued (RMQ) with its count: two
\* failing sweeps and a successful third leave the count two higher.
C15_TwoFailuresThenQueued ==
    [][/\ \A m \in Msgs :
            /\ SweepFails(m) =>
                 /\ msgs'[m].failed_count = msgs[m].failed_count + 1
                 /\ msgs'[m].retry_after > clock
                 /\ msgs[m].retry_after # NULL =>
                       msgs'[m].retry_after > msgs[m].retry_after
            /\ SweepSucceeds(m) =>
                 /\ msgs'[m].status = "Queued (RMQ)"
                 /\ msgs'[m].failed_count = msgs[m].failed_count
                 /\ pub[m] # <<>>
       /\ SweepSelects =>
            \A m \in BatchNames(sw'.batch) :
               msgs[m].retry_after = NULL \/ msgs[m].retry_after <= clock]_vars

C15_Witness ==
    \E m \in Msgs :
        /\ msgs[m].priority # 3 /\ msgs[m].status = "Queued (RMQ)"
        /\ msgs[m].failed_count = 2
        /\ msgs[m].retry_after = Day + retry_after_delay(2)
        /\ clock = 2 * Day /\ Len(pub[m]) = 1

\* a step of the sweep job
SweepStep == sw' # sw

\* non-forced push_to_queue goes on to publish m
PushGoesOn(w) == wk[w].pc = "pushq" /\ wk'[w].pc = "publish"

\* C16: the sweep selects, and a non-forced push_to_queue goes on with, only a
\* message that is Accepted or Failed (Accepted only, for push_to_queue), whose
\* failed_count is below MAX_FAILED_COUNT and, for the sweep, whose retry_after
\* is unset or has elapsed; and once a message's failed_count has reached
\* MAX_FAILED_COUNT no step of the sweep publishes it or changes its document.
C16_SweepGuard ==
    [][/\ SweepSelects =>
            \A m \in BatchNames(sw'.batch) :
               /\ msgs[m].status \in {"Accepted", "Failed"}
               /\ msgs[m].failed_count < MAX_FAILED_COUNT
               /\ msgs[m].retry_after = NULL \/ msgs[m].retry_after <= clock
       /\ \A w \in Workers : PushGoesOn(w) =>
               /\ msgs[wk[w].m].status = "Accepted"
               /\ msgs[wk[w].m].failed_count < MAX_FAILED_COUNT
       /\ \A m \in Msgs :
            (SweepStep /\ msgs[m].failed_count >= MAX_FAILED_COUNT) =>
               msgs'[m] = msgs[m] /\ pub'[m] = pub[m]]_vars

\* the sweep's except branch runs
SweepExcept == sw.pc = "publishing" /\ cnt'.fail < cnt.fail /\ sw' # sw

\* the messages of the batch the sweep has not yet handed to the broker
NotYetPublished == {sw.batch[k].name : k \in sw.i .. Len(sw.batch)}

\* C17: when the broker fails while the sweep publishes a batch, every message
\* of the batch not yet published ends Failed with its failed_count one
\* higher, and no message of the batch is left Queuing (RMQ) or is marked
\* Queued (RMQ).
C17_BatchFailure ==
    [][SweepExcept =>
          /\ \A m \in NotYetPublished :
                /\ msgs'[m].status = "Failed"
                /\ msgs'[m].failed_count = msgs[m].failed_count + 1
          /\ \A m \in BatchNames(sw.batch) :
                /\ msgs'[m].status # "Queuing (RMQ)"
                /\ msgs'[m].status = "Queued (RMQ)" => msgs[m].status = "Queued (RMQ)"]_vars

\* C18: every broker message published for a message carries the message's
\* priority as its tag, or 2 where the root domain raised a lower priority,
\* whether the sweep or push_to_queue published it.
C18_PriorityTag ==
    \A m \in Msgs : \A k \in DOMAIN pub[m] :
        \/ pub[m][k].priority = msgs[m].priority
        \/ pub[m][k].priority = 2 /\ msgs[m].priority < 2

\* a broker message is published for m
Publishes(m) == Len(pub'[m]) = Len(pub[m]) + 1

\* C19: the recipient list of every broker message published for a message is
\* exactly the message's recipients whose status is not Blocked when it is
\* published, whether the sweep or push_to_queue publishes it.
C19_RecipientList ==
    [][\A m \in Msgs : Publishes(m) =>
          pub'[m][Len(pub'[m])].recipients = NonBlocked(msgs[m])]_vars

\* the gate job writes an Accepted decision for m
GateAccepts(m) ==
    wk[m].pc = "decided" /\ wk'[m].pc # "decided" /\ wk[m].status = "Accepted"

\* process_for_delivery of m ends after its publish
GatePushEnds(m) == wk[m].pc \in {"publish", "published"} /\ wk'[m].pc = "idle"

\* m waits as the gate left it: Accepted, below priority 3, and no operator has
\* acted on it
WaitsForSweep(m) ==
    /\ msgs[m].status = "Accepted" /\ msgs[m].priority # 3
    /\ wk[m].pc = "idle" /\ ~msgs[m].forced /\ epoch[m] = 0

\* a step of an operator's request
OperatorStep == wk'["op"] # wk["op"] \/ cnt'.ops < cnt.ops

\* C20: when the gate accepts a message of priority 3 the same operation goes
\* on to publish it and ends with the message Queued (RMQ) or Failed; when it
\* accepts a message of lower priority the operation ends without a publish,
\* the message is Accepted, and it stays Accepted until a step of the sweep or
\* of an operator.
C20_FrontOfLine ==
    [][\A m \in Msgs :
          /\ (GateAccepts(m) /\ msgs[m].priority = 3) =>
                /\ wk'[m].pc = "publish" /\ wk'[m].to # {}
                /\ msgs'[m].status = "Queuing (RMQ)"
          /\ GatePushEnds(m) =>
                /\ msgs[m].priority = 3
                /\ msgs'[m].status \in {"Queued (RMQ)", "Failed"}
          /\ (GateAccepts(m) /\ msgs[m].priority # 3) =>
                /\ wk'[m] = Idle /\ pub' = pub
                /\ msgs'[m].status = "Accepted"
          /\ (WaitsForSweep(m) /\ msgs'[m].status # "Accepted") =>
                SweepStep \/ OperatorStep]_vars

C20_Witness ==
    \E m, n \in Msgs :
        /\ msgs[m].priority = 3 /\ msgs[m].status = "Queued (RMQ)"
        /\ ~msgs[m].forced /\ epoch[m] = 0 /\ Len(pub[m]) = 1
        /\ msgs[n].priority = 1 /\ WaitsForSweep(n) /\ pub[n] = <<>>
        /\ sw = SwIdle

\* C21: an exception raised while one status event is handled does not stop
\* the drain loop: when a run that entered the loop has ended, every event that
\* was waiting has been fetched and none is left at the head of the queue for
\* a later run.
C21_LoopGoesOn ==
    (us.phase = "drain" /\ us.run = "idle" /\ us.opened > 0) => statusQ = <<>>

\* C22: a status event is acknowledged only after its handler applied it to
\* the store: every acknowledged event has been applied.
C22_AckAfterApply ==
    us.phase = "drain" => us.acked \subseteq us.applied

\* no stored message waits for an outcome
NoneUnsynced ==
    \A m \in Msgs :
        msgs[m].status \notin {"Queued (RMQ)", "Queued (Haraka)", "Deferred"}

\* fetch_and_update_delivery_statuses is called
DrainCalled == us.phase = "drain" /\ us'.calls = us.calls + 1

\* C23: a call of fetch_and_update_delivery_statuses made while no message is
\* Queued (RMQ), Queued (Haraka) or Deferred opens no broker connection,
\* fetches and acknowledges no event and changes no message, recipient or
\* bounce record.
C23_NothingToSync ==
    [][(DrainCalled /\ NoneUnsynced) =>
          /\ us'.opened = us.opened /\ ~us'.open /\ us'.run = "idle"
          /\ statusQ' = statusQ
          /\ us'.fetched = us.fetched /\ us'.acked = us.acked
          /\ msgs' = msgs /\ bh' = bh /\ bl' = bl]_vars

C23_Witness ==
    /\ us.phase = "drain" /\ us.skipped > 0 /\ us.opened = 0
    /\ statusQ # <<>> /\ statusQ = us.queue0 /\ msgs = us.msgs0

\* the four operator actions of the store
RoleActions == {"force_accept", "retry_failed", "retry_bounced", "force_push_to_queue"}

\* C24: an operator action called without the System Manager role is rejected
\* and leaves the message, its recipients and the broker queue unchanged.
C24_RoleRequired ==
    (/\ us.phase = "operator" /\ us.step # "call"
     /\ ~us.role /\ us.action \in RoleActions) =>
        /\ us.step = "rejected"
        /\ msgs = us.msgs0
        /\ pub = [m \in Msgs |-> <<>>]

\* the body of the operator action named act runs
OperatorActs(act) ==
    /\ us.phase = "operator" /\ us.step = "admitted" /\ us.action = act
    /\ cnt'.ops < cnt.ops

\* the stored message of the operator request
OpDoc == msgs[MsgOrder[1]]

\* no operator step has touched the store or the broker
OperatorUntouched ==
    /\ msgs = us.msgs0
    /\ pub = [m \in Msgs |-> <<>>]
    /\ wk = [w \in Workers |-> Idle]

\* C25: force_accept on a message that is In Progress or Blocked clears the
\* Blocked status and the error of every recipient, clears the message's
\* error and sets the status to Accepted, going on to publish at once when the
\* priority is 3; on a message in any other status it changes nothing.
C25_ForceAccept ==
    /\ [][OperatorActs("force_accept") =>
            LET m == MsgOrder[1]
                doc == msgs'[m]
            IN  /\ msgs[m].status \in {"In Progress", "Blocked"}
                /\ \A i \in DOMAIN doc.recipients :
                      /\ doc.recipients[i].status # "Blocked"
                      /\ msgs[m].recipients[i].status = "Blocked" =>
                            /\ doc.recipients[i].status = ""
                            /\ doc.recipients[i].error_message = ""
                      /\ msgs[m].recipients[i].status # "Blocked" =>
                            doc.recipients[i] = msgs[m].recipients[i]
                /\ doc.error_message = ""
                /\ doc.failed_count = msgs[m].failed_count
                /\ IF doc.priority = 3
                   THEN /\ doc.status = "Queuing (RMQ)"
                        /\ writes'[m] = <<"Accepted">>
                        /\ wk'["op"].pc = "publish" /\ wk'["op"].m = m
                        /\ wk'["op"].to = RcptEmails(m)
                   ELSE /\ doc.status = "Accepted"
                        /\ wk'["op"] = Idle /\ pub' = pub]_vars
    /\ []((/\ us.phase = "operator" /\ us.action = "force_accept"
           /\ us.msgs0[MsgOrder[1]].status \notin {"In Progress", "Blocked"})
             => OperatorUntouched)

C25_Witness ==
    /\ us.phase = "operator" /\ us.action = "force_accept" /\ us.role
    /\ us.msgs0[MsgOrder[1]].status = "Blocked"
    /\ us.msgs0[MsgOrder[1]].error_message = "blocklist"
    /\ Len(OpDoc.recipients) = 2
    /\ \A i \in DOMAIN OpDoc.recipients :
          /\ us.msgs0[MsgOrder[1]].recipients[i].status = "Blocked"
          /\ OpDoc.recipients[i].status = ""
    /\ OpDoc.priority = 3 /\ OpDoc.status = "Queued (RMQ)"
    /\ Len(pub[MsgOrder[1]]) = 1

RequeueActions == {"retry_failed", "retry_bounced", "force_push_to_queue"}

\* the statuses each re-queue action acts from
SourceStates(act) ==
    IF act = "retry_failed" THEN {"Failed"}
    ELSE IF act = "retry_bounced" THEN {"Bounced"}
    ELSE {"Queued (RMQ)", "Queued (Haraka)"}

\* the operator's request has run to its end
OperatorDone == cnt.ops = 0 /\ wk["op"] = Idle

\* C26: retry_failed acts only on a Failed message with failed_count below
\* MAX_FAILED_COUNT, retry_bounced only on a Bounced one, force_push_to_queue
\* only on one that is Queued (RMQ) or Queued (Haraka); called in any other
\* state each leaves the message unchanged and publishes nothing; and when one
\* of them has acted, the request ends with the message Queued (RMQ) or
\* Failed.
C26_RequeueActions ==
    /\ [][\A act \in RequeueActions : OperatorActs(act) =>
            /\ OpDoc.status \in SourceStates(act)
            /\ act = "retry_failed" => OpDoc.failed_count < MAX_FAILED_COUNT]_vars
    /\ []((/\ us.phase = "operator" /\ us.action \in RequeueActions
           /\ \/ us.msgs0[MsgOrder[1]].status \notin SourceStates(us.action)
              \/ /\ us.action = "retry_failed"
                 /\ us.msgs0[MsgOrder[1]].failed_count >= MAX_FAILED_COUNT)
             => OperatorUntouched)
    /\ []((us.phase = "operator" /\ us.action \in RequeueActions /\ OperatorDone)
             => OpDoc.status \in {"Queued (RMQ)", "Failed"})

\* C27: intake of a message without a DKIM-Signature header is rejected with
\* a MandatoryFieldError, no message is stored and no gate evaluation is
\* enqueued.
C27_MissingSignature ==
    (us.phase = "intake" /\ us.step = "done" /\ ~us.has_dkim) =>
        /\ us.error = "MandatoryFieldError"
        /\ msgs = [m \in Msgs |-> NoDoc]
        /\ wk = [w \in Workers |-> Idle]

\* the except branch of push_to_queue runs for m
PushFails(m) ==
    \E w \in Workers :
        /\ wk[w].pc \in {"publish", "published"} /\ wk[w].m = m
        /\ wk'[w].pc = "idle" /\ cnt'.fail < cnt.fail

\* C28: the failed_count of a message never decreases, whatever the operations
\* and operator retries, and each failed publish of the message, by
\* push_to_queue or by the sweep, raises it by exactly one.
C28_FailedCountMonotone ==
    [][\A m \in Msgs :
          /\ msgs'[m].failed_count >= msgs[m].failed_count
          /\ (PushFails(m) \/ SweepFails(m)) =>
                msgs'[m].failed_count = msgs[m].failed_count + 1]_vars

\* C29: when a rabbitmq_context block has exited, normally or by exception,
\* every broker connection opened for it, those opened inside _connect
\* included, has been closed.
C29_ConnectionsClosed ==
    (us.phase = "broker" /\ us.ctx \in {"out", "closed", "raised"}) =>
        us.open = 0

\* the sweep is inside a run of push_emails_to_queue
SweepRuns == sw.pc # "idle"

\* _connect is inside its loop
Connecting == us.phase = "broker" /\ us.ctx = "connecting"

\* what holds of the counters in every state: the loop of the sweep runs only
\* below max_failures, _connect never goes past max_retries attempts, returns
\* only after its last attempt and has raised once max_retries attempts failed
BoundedAttempts ==
    /\ sw.total_failures < max_failures
    /\ us.attempt <= max_retries
    /\ us.failures <= us.attempt
    /\ us.ctx = "in" => us.attempt = max_retries
    /\ us.failures = max_retries => us.ctx = "raised"

\* an except branch of the sweep runs in this step
SweepFailsRun == sw.pc = "publishing" /\ cnt'.fail = cnt.fail - 1

\* the failed iteration that brings total_failures to max_failures ends the run
LastFailureReturns ==
    (SweepFailsRun /\ sw.total_failures = max_failures - 1) => ~SweepRuns'

\* C30: push_emails_to_queue terminates: under any pattern of broker failures
\* a run makes at most max_failures failed iterations and then returns, and
\* every run that started returns; _connect makes at most max_retries attempts,
\* has raised once the third of them failed, and always leaves its loop.
C30_SweepTerminates ==
    /\ []BoundedAttempts
    /\ [][LastFailureReturns]_vars
    /\ SweepRuns ~> ~SweepRuns
    /\ Connecting ~> ~Connecting

\* the third iteration of one run: _connect failed three times and raised,
\* the sweep is about to count its third failure
C30_Witness ==
    /\ sw.pc = "publishing" /\ sw.total_failures = max_failures - 1
    /\ us.ctx = "raised" /\ us.attempt = max_retries
    /\ us.failures = max_retries

\* the gate job of the sent message writes its decision in this step
SendGateWrites == wk[SendMsg].pc = "decided" /\ wk'[SendMsg].pc # "decided"

\* C31: a message with one recipient that is not on the blocklist, spam
\* detection disabled: gate evaluation writes Accepted, and with a working
\* broker, fair sweeps and drains, and queue_ok then delivered from the
\* transfer agent, the message reaches Sent and stays Sent.
C31_FullSend ==
    /\ [][SendGateWrites =>
             /\ wk[SendMsg].status = "Accepted"
             /\ \E i \in DOMAIN StatusPath(SendMsg) :
                   StatusPath(SendMsg)[i] = "Accepted"]_vars
    /\ <>[](msgs[SendMsg].status = "Sent")

\* the message is Sent, both events consumed
C31_Witness ==
    /\ msgs[SendMsg].status = "Sent"
    /\ msgs[SendMsg].recipients[1].status = "Sent"
    /\ cnt.ev = 0 /\ statusQ = <<>>

\* the gate job of m writes its decision in this step
GateWrites(m) == wk[m].pc = "decided" /\ wk'[m].pc # "decided"

\* C32: gate evaluation writes a status only to a message whose persisted
\* status is still In Progress, whatever the operator and the publishers did
\* since the job reloaded it.
C32_GateWritesInProgress ==
    [][\A m \in Msgs : GateWrites(m) => msgs[m].status = "In Progress"]_vars

\* push_to_queue, called without the force flag by w, ends in this step before
\* it reaches rmq.publish
PushAborts(w) == wk[w].pc = "pushq" /\ wk'[w].pc = "idle"

\* C33: when push_to_queue aborts, silently on a status that is not Accepted or
\* with the error of a message without a non-blocked recipient, it publishes
\* nothing and leaves the document as it was before the call.
C33_AbortLeavesUntouched ==
    [][\A w \in Workers :
          PushAborts(w) => /\ pub' = pub
                           /\ msgs'[wk[w].m] = msgs[wk[w].m]]_vars

\* a ledger reports the address as blocked now: the Bounce Log the gate reads,
\* or the Bounce History the reconciler writes
LedgerBlocks(email) ==
    is_email_blocked(bl, email, clock) \/ is_email_blocked(bh, email, clock)

\* C34: no work-queue message is published to an address that the bounce ledger
\* reports as blocked at publish time, unless an operator force-accepted the
\* message; retry_bounced does not publish again to the address whose bounce
\* was just recorded.
C34_NoPublishToBlocked ==
    [][\A m \in Msgs :
          (Publishes(m) /\ ~msgs[m].forced) =>
              \A email \in pub'[m][Len(pub'[m])].recipients :
                  ~LedgerBlocks(email)]_vars

\* no job is at work: no gate job or publish, no sweep, no drain
NoJobAtWork ==
    /\ \A w \in Workers : wk[w].pc = "idle"
    /\ sw.pc = "idle"
    /\ ~dr

\* no message is on its way to the work queue: none In Progress, none the
\* sweep would select
NoneOnItsWay ==
    \A m \in Msgs : msgs[m].status \notin {"In Progress", "Accepted", "Failed",
                                            "Queuing (RMQ)"}

NoneForced == \A m \in Msgs : ~msgs[m].forced

\* C35: status events are not stranded by the existence check of the
\* reconciler: whenever an event is pending in the status queue, some message
\* is in Queued (RMQ), Queued (Haraka) or Deferred, so that the next drain run
\* processes it. Stated for the states where no job is at work, no message is
\* on its way to the work queue and no message was force-accepted.
C35_NoStrandedEvent ==
    (statusQ # <<>> /\ NoJobAtWork /\ NoneOnItsWay /\ NoneForced) =>
        \E m \in Msgs :
            msgs[m].status \in {"Queued (RMQ)", "Queued (Haraka)", "Deferred"}

\* the messages the sweep handed to the broker in this iteration
PublishedInIteration ==
    {sw.batch[k].name : k \in {j \in 1 .. Len(sw.batch) :
                                  j < sw.i /\ sw.batch[j].recipients # {}}}

\* C36: a message whose publish succeeded in a batch is not marked Failed by
\* that batch: the Failed the except branch of the sweep writes goes only to
\* messages for which this iteration published nothing.
C36_PublishedNotFailed ==
    [][\A m \in Msgs : SweepFails(m) => m \notin PublishedInIteration]_vars

\* the event at the head of the status queue is a delivered event for m that
\* names every recipient of m
DeliveredToAll(m) ==
    /\ statusQ # <<>>
    /\ Head(statusQ).outgoing_mail_log = m
    /\ Head(statusQ).hook = "delivered"
    /\ RcptEmails(m) \subseteq Head(statusQ).rcpt_to

\* the statuses update_status(db_set=True) wrote to m and sent to the webhook
\* in this step, in their order
Notified(m) ==
    IF msgs'[m].status # msgs[m].status \/ writes'[m] # <<>>
    THEN writes'[m] \o <<msgs'[m].status>> ELSE <<>>

\* C37: one status event persists and reports only the final aggregate status:
\* a delivered event that covers all recipients of a message never writes
\* Partially Sent for it, and one event causes at most one notification.
C37_FinalStatusOnly ==
    [][\A m \in Msgs :
          (EventStep /\ Head(statusQ).outgoing_mail_log = m) =>
              /\ writes'[m] = <<>>
              /\ DeliveredToAll(m) =>
                    \A i \in DOMAIN Notified(m) :
                        Notified(m)[i] # "Partially Sent"]_vars

\* the bounce event at the head of the status queue was processed before:
\* every recipient it names already carries what this event writes
Redelivered ==
    /\ statusQ # <<>>
    /\ Head(statusQ).hook = "bounce"
    /\ LET data == Head(statusQ)
           doc == msgs[data.outgoing_mail_log]
       IN  \A i \in DOMAIN doc.recipients :
              doc.recipients[i].email \in data.rcpt_to =>
                 /\ doc.recipients[i].status = "Bounced"
                 /\ doc.recipients[i].retries = data.retries
                 /\ doc.recipients[i].action_at = data.action_at
                 /\ doc.recipients[i].response = <<data.hook>>

\* C38: a bounce event the broker delivers again does not escalate the block:
\* processing it a second time leaves the bounce count and blocked_until of its
\* addresses as the first processing left them.
C38_RedeliveryIdempotent ==
    [][(EventStep /\ Redelivered) =>
          \A email \in Head(statusQ).rcpt_to :
              /\ bh'[email].bounce_count = bh[email].bounce_count
              /\ bh'[email].blocked_until = bh[email].blocked_until]_vars

\* the connections checked out and not yet returned
CheckedOut == {t \in PoolThreads : us.held[t] # 0}

\* C39: the pools are bounded: for a key, the number of connections checked
\* out and not yet returned never exceeds max_connections.
C39_PoolBounded ==
    us.phase = "pool" => Cardinality(CheckedOut) <= max_connections

\* thread t is inside pool.get() on an empty queue
WaitsInGet(t) == us.pc[t] = "get" /\ us.pool = <<>>

\* C40: get_connection never blocks: each call returns a pooled connection,
\* returns a new one or raises the limit error, no caller waits for a pooled
\* connection, and no two callers hold the same connection.
C40_NeverBlocks ==
    us.phase = "pool" =>
        /\ \A t \in PoolThreads : ~WaitsInGet(t)
        /\ \A t, u \in PoolThreads :
              (t # u /\ us.held[t] # 0) => us.held[t] # us.held[u]

====
